---- MODULE Spec2Model ----
(***************************************************************************)
(* The procedural destruction engine of Blackholerun.                      *)
(*                                                                         *)
(*   - ShipDestructionCinematic (src/backup003/ship_destruction_cinematic  *)
(*     .py): the timed director state machine and its effects, under Spec. *)
(*   - The debris pieces of src/asteroid_destruction_module.py and         *)
(*     src/backup003/ship_destruction_module.py in the frames of their     *)
(*     hosts (src/black_hole_runV08.py, src/black_hole_runV09.py), under   *)
(*     DebrisSpec.                                                         *)
(*                                                                         *)
(* Python floats are modelled in fixed point: a quantity q is held as the  *)
(* integer q * Scale, products are divided back and truncated toward zero. *)
(* Random draws (random.uniform, random.randint, random.random) are        *)
(* nondeterministic choices from small sets that contain the end points of *)
(* the drawn range.  The Delaunay triangulation is an input: the generator *)
(* receives one of a few triangle lists, or fails.                         *)
(*                                                                         *)
(* Not modelled, because nothing depends on them but pixels: sounds, the   *)
(* twinkling stars, the background, effect radii and colours (sin / colour *)
(* interpolation), and the per-frame motion of mini-explosions, sparks     *)
(* and smoke clouds (each keeps the point it was created at as origin).    *)
(*                                                                         *)
(* The slow-motion factor of V09 approaches 1.0 geometrically; truncated   *)
(* to 1/Scale it settles just below 1.0, so a ship debris piece lives a    *)
(* frame or two longer here than with floats.                              *)
(***************************************************************************)
EXTENDS Integers, Sequences, FiniteSets, TLC

----------------------------------------------------------------------------
(* Fixed point helpers *)

Scale == 100 * 100

Max(a, b) == IF a >= b THEN a ELSE b

Min(a, b) == IF a <= b THEN a ELSE b

\* Python's int() / C's cast: division truncated toward zero.
TruncDiv(a, b) == IF a >= 0 THEN a \div b ELSE -((-a) \div b)

RECURSIVE IsqrtIter(_, _, _)
IsqrtIter(n, lo, hi) ==
    IF lo >= hi THEN lo
    ELSE LET mid == (lo + hi + 1) \div 2
         IN IF mid * mid <= n THEN IsqrtIter(n, mid, hi)
                              ELSE IsqrtIter(n, lo, mid - 1)

\* floor(sqrt(n)) for 0 <= n < 2^31
Isqrt(n) == IsqrtIter(n, 0, Min(n, 46340))

\* max(0, min(255, 255 * num / den)), in units of 1/Scale
ClampAlpha(num, den) ==
    IF num <= 0 THEN 0
    ELSE IF num >= den THEN 255 * Scale
    ELSE TruncDiv(255 * Scale * num, den)

----------------------------------------------------------------------------
(* Configuration: src/backup003/ship_destruction_cinematic.py:10-64 *)

SHAKE_1_DURATION == 15
DELAY_1_DURATION == 60
SHAKE_2_DURATION == 20
DELAY_2_DURATION == 60
FLASH_DURATION == 8
FRACTURE_DURATION == 15
EXPAND_DURATION == 80
COAST_DURATION == 90
DEBRIS_MIN_SPEED == 3
DEBRIS_MAX_SPEED == 5
DEBRIS_MIN_ROTATION == -5
DEBRIS_MAX_ROTATION == 5
SPARK_COUNT == 50
SPARK_LIFETIME == 20
MINI_EXPLOSION_DURATION == 15
SMOKE_CLOUD_COUNT == 30
SMOKE_CLOUD_LIFETIME == 120
ARC_LIFETIME == 10
ARC_LENGTH == 50
ARC_JITTER == 9
MAX_BRANCH_DEPTH == 2
NUM_SEGMENTS == 5

\* FRACTURE_SPEED = 0.02 = 1 / FractureSpeedInv
FractureSpeedInv == 50

\* coasting_drag = 0.995 = DragNum / DragDen
DragNum == 199
DragDen == 200

\* The host's viewport and the point the cinematic starts at
\* (src/black_hole_runV08.py:68-69, 673-681).
original_screen_width == 1000
original_screen_height == 800

\* The durations of the seven timed states, as a configuration record.
ConfiguredDurations ==
    [SHAKE_1 |-> SHAKE_1_DURATION, DELAY_1 |-> DELAY_1_DURATION,
     SHAKE_2 |-> SHAKE_2_DURATION, DELAY_2 |-> DELAY_2_DURATION,
     INITIAL_FLASH |-> FLASH_DURATION, FRACTURING |-> FRACTURE_DURATION,
     EXPANDING_CORE |-> EXPAND_DURATION]

\* The configuration "every state duration set to 1 frame".
UnitDurations ==
    [SHAKE_1 |-> 1, DELAY_1 |-> 1, SHAKE_2 |-> 1, DELAY_2 |-> 1,
     INITIAL_FLASH |-> 1, FRACTURING |-> 1, EXPANDING_CORE |-> 1]

StateOrder ==
    <<"SHAKE_1", "DELAY_1", "SHAKE_2", "DELAY_2", "INITIAL_FLASH",
      "FRACTURING", "EXPANDING_CORE", "COASTING">>

----------------------------------------------------------------------------
(* Values *)

None == [some |-> FALSE, val |-> <<>>]

Some(v) == [some |-> TRUE, val |-> v]

Vec(x, y) == <<x, y>>

\* A pixel quantity in fixed point.
Px(n) == n * Scale

\* The points handed to the triangulation are floats (the ring points fall
\* between pixels): their coordinates are in 1/Sub pixel.
Sub == Scale \div 1000

\* The point at pixel (x, y).
Pt(x, y) == Vec(x * Sub, y * Sub)

----------------------------------------------------------------------------
(* Inputs *)

\* Side of the square temp_surface the rotated ship is blitted on
\* (_create_cinematic_debris, lines 552-556).
ImgSize == 100

\* What the constructor receives and draws: the drift from
\* random.uniform(-1, 1) per axis, the angular velocity from
\* random.uniform(-0.5, 0.5) (lines 282-283), whether mini-explosion sounds
\* are supplied, and the configuration of the durations.
CinematicInputs ==
    { [drift |-> Vec(0, 0), ang |-> -(Scale \div 2), sounds |-> TRUE,
       durs |-> ConfiguredDurations],
      [drift |-> Vec(Scale, Scale), ang |-> Scale \div 2, sounds |-> FALSE,
       durs |-> ConfiguredDurations],
      [drift |-> Vec(-Scale, Scale \div 2), ang |-> 0, sounds |-> TRUE,
       durs |-> UnitDurations] }

\* random.uniform(DEBRIS_MIN_SPEED, DEBRIS_MAX_SPEED) and
\* random.uniform(DEBRIS_MIN_ROTATION, DEBRIS_MAX_ROTATION) (lines 613, 615).
DebrisDraws ==
    { [speed |-> Px(DEBRIS_MIN_SPEED), rot |-> Px(DEBRIS_MIN_ROTATION)],
      [speed |-> Px(DEBRIS_MAX_SPEED), rot |-> Px(DEBRIS_MAX_ROTATION)] }

\* Outcomes of Delaunay(np.array(points)) on a T x T surface: it raises, or it
\* returns simplices, here as triangles of points.  The ring points lie
\* up to 10% outside the surface, so a triangle can fall outside it.
TriFan(T) ==
    LET c == T \div 2
    IN << <<Pt(0, 0), Pt(T, 0), Pt(c, c)>>,
          <<Pt(T, 0), Pt(T, T), Pt(c, c)>>,
          <<Pt(T, T), Pt(0, T), Pt(c, c)>>,
          <<Pt(0, T), Pt(0, 0), Pt(c, c)>> >>

TriRing(T) ==
    LET c == T \div 2
    IN << <<Pt(0, 0), Pt(T, 0), Pt(c, -(c \div 10))>>,
          <<Pt(c - 12, c - 10), Pt(c, c - 10), Pt(c, c)>>,
          <<Pt(T, c), Pt(T + (c \div 10), c + 3), Pt(T, T)>>,
          <<Pt(c, c), Pt(T, c), Pt(T, T)>> >>

Triangulations(T) ==
    { [ok |-> FALSE, simplices |-> <<>>],
      [ok |-> TRUE, simplices |-> <<>>],
      [ok |-> TRUE, simplices |-> TriFan(T)],
      [ok |-> TRUE, simplices |-> TriRing(T)] }

----------------------------------------------------------------------------
(* CinematicDebris and _create_cinematic_debris *)

MinOf3(a, b, c) == Min(a, Min(b, c))

MaxOf3(a, b, c) == Max(a, Max(b, c))

\* ClampedBBox without the clamps: the box of the triangle as it is.
ClampedBBoxLoose(tri, img_width, img_height) ==
    LET min_x == MinOf3(tri[1][1], tri[2][1], tri[3][1])
        max_x == MaxOf3(tri[1][1], tri[2][1], tri[3][1])
        min_y == MinOf3(tri[1][2], tri[2][2], tri[3][2])
        max_y == MaxOf3(tri[1][2], tri[2][2], tri[3][2])
    IN [min_x |-> min_x, min_y |-> min_y,
        bbox_width |-> max_x - min_x, bbox_height |-> max_y - min_y]

\* The clamped bounding box of a triangle (lines 578-587), in 1/Sub pixel;
\* img_width and img_height are in pixels.
ClampedBBox(tri, img_width, img_height) ==
    LET min_x == Max(0, MinOf3(tri[1][1], tri[2][1], tri[3][1]))
        max_x == Min(img_width * Sub, MaxOf3(tri[1][1], tri[2][1], tri[3][1]))
        min_y == Max(0, MinOf3(tri[1][2], tri[2][2], tri[3][2]))
        max_y == Min(img_height * Sub, MaxOf3(tri[1][2], tri[2][2], tri[3][2]))
    IN [min_x |-> min_x, min_y |-> min_y,
        bbox_width |-> max_x - min_x, bbox_height |-> max_y - min_y]

\* SubPixel, skipping what is under a third of the image.
SubPixelCoarse(bb) == bb.bbox_width < 30 * Sub \/ bb.bbox_height < 30 * Sub

\* Line 589: a triangle whose clamped box is under one pixel is skipped.
SubPixel(bb) == bb.bbox_width < Sub \/ bb.bbox_height < Sub

\* pygame.Surface((bbox_width, bbox_height)): the size of the cropped part,
\* the floats cut to whole pixels.
CroppedPart(bb) == [w |-> bb.bbox_width \div Sub, h |-> bb.bbox_height \div Sub]

\* speed * (cos a, sin a) for a = atan2(dy2, dx2) (lines 610-614); dx2, dy2 are
\* the offset of the piece from the surface centre in halves of 1/Sub pixel.
\* atan2(0, 0) is 0, so a piece exactly at the centre flies along +x.
BurstVelocity(dx2, dy2, speed) ==
    IF dx2 = 0 /\ dy2 = 0 THEN Vec(speed, 0)
    ELSE LET d100 == Isqrt((dx2 * dx2 + dy2 * dy2) * (10000 \div (Sub * Sub)))
         IN Vec(TruncDiv(speed * dx2 * (100 \div Sub), d100),
                TruncDiv(speed * dy2 * (100 \div Sub), d100))

\* CinematicDebris.__init__ (lines 78-83) on the values of lines 600-617.
NewCinematicDebris(bb, T, center_pos, draw) ==
    LET cx2 == 2 * bb.min_x + bb.bbox_width      \* piece centre, half units
        cy2 == 2 * bb.min_y + bb.bbox_height
    IN [pos |-> Vec(center_pos[1] + ((cx2 - T * Sub) * Scale) \div (2 * Sub),
                    center_pos[2] + ((cy2 - T * Sub) * Scale) \div (2 * Sub)),
        velocity |-> BurstVelocity(cx2 - 2 * Sub * (T \div 2),
                                   cy2 - 2 * Sub * (T \div 2), draw.speed),
        rotation_speed |-> draw.rot,
        rotation_angle |-> 0,
        w |-> CroppedPart(bb).w,
        h |-> CroppedPart(bb).h]

RECURSIVE DebrisOfSimplices(_, _, _, _)
DebrisOfSimplices(simplices, T, center_pos, draw) ==
    IF simplices = <<>> THEN <<>>
    ELSE LET bb == ClampedBBox(Head(simplices), T, T)
             rest == DebrisOfSimplices(Tail(simplices), T, center_pos, draw)
         IN IF SubPixel(bb) THEN rest
            ELSE <<NewCinematicDebris(bb, T, center_pos, draw)>> \o rest

\* _create_cinematic_debris (lines 544-619): [] when the triangulation raises.
CreateCinematicDebris(T, center_pos, tri, draw) ==
    IF ~tri.ok THEN <<>>
    ELSE DebrisOfSimplices(tri.simplices, T, center_pos, draw)

\* CinematicDebris.update (lines 85-92).
\* CinematicDebrisUpdate, slowing the piece down before it moves.
CinematicDebrisUpdateDragFirst(piece, drag_num, drag_den) ==
    LET slowed == Vec(TruncDiv(piece.velocity[1] * drag_num, drag_den),
                      TruncDiv(piece.velocity[2] * drag_num, drag_den))
    IN [piece EXCEPT
           !.pos = Vec(piece.pos[1] + slowed[1], piece.pos[2] + slowed[2]),
           !.rotation_angle = piece.rotation_angle + piece.rotation_speed,
           !.velocity = slowed]

CinematicDebrisUpdate(piece, drag_num, drag_den) ==
    [piece EXCEPT
        !.pos = Vec(piece.pos[1] + piece.velocity[1], piece.pos[2] + piece.velocity[2]),
        !.rotation_angle = piece.rotation_angle + piece.rotation_speed,
        !.velocity = Vec(TruncDiv(piece.velocity[1] * drag_num, drag_den),
                         TruncDiv(piece.velocity[2] * drag_num, drag_den))]

\* FractureNudge, tumbling the piece as well.
FractureNudgeTumbling(piece) ==
    [piece EXCEPT
        !.pos = Vec(piece.pos[1] + TruncDiv(piece.velocity[1], FractureSpeedInv),
                    piece.pos[2] + TruncDiv(piece.velocity[2], FractureSpeedInv)),
        !.rotation_angle = piece.rotation_angle + piece.rotation_speed]

\* The FRACTURING nudge (lines 448-450).
FractureNudge(piece) ==
    [piece EXCEPT
        !.pos = Vec(piece.pos[1] + TruncDiv(piece.velocity[1], FractureSpeedInv),
                    piece.pos[2] + TruncDiv(piece.velocity[2], FractureSpeedInv))]

\* pygame: piece.image.get_rect(center=piece.pos), the centre cast to int.
PieceRect(piece) ==
    [x |-> TruncDiv(piece.pos[1], Scale) - (piece.w \div 2),
     y |-> TruncDiv(piece.pos[2], Scale) - (piece.h \div 2),
     w |-> piece.w, h |-> piece.h]

\* pygame.Rect.colliderect
CollideRect(a, b) ==
    /\ a.w > 0 /\ a.h > 0 /\ b.w > 0 /\ b.h > 0
    /\ a.x < b.x + b.w /\ a.y < b.y + b.h
    /\ a.x + a.w > b.x /\ a.y + a.h > b.y

ScreenRect(sw, sh) == [x |-> 0, y |-> 0, w |-> sw, h |-> sh]

MapSeq(Op(_), s) == [i \in 1..Len(s) |-> Op(s[i])]

----------------------------------------------------------------------------
(* The ephemeral effects *)

\* MiniExplosion.__init__ (lines 125-129)
NewMiniExplosion == [timer |-> 0, alpha |-> 255 * Scale]

\* MiniExplosion.update (lines 131-139)
MiniExplosionUpdate(m) ==
    LET timer == m.timer + 1
    IN IF timer >= MINI_EXPLOSION_DURATION
       THEN [timer |-> timer, alpha |-> 0]
       ELSE [timer |-> timer,
             alpha |-> ClampAlpha(MINI_EXPLOSION_DURATION - timer, MINI_EXPLOSION_DURATION)]

\* SmokeCloud.__init__ (lines 149-155)
NewSmokeCloud(pos) ==
    [origin |-> pos, alpha |-> 255 * Scale,
     lifetime |-> SMOKE_CLOUD_LIFETIME, current_lifetime |-> 0]

\* SmokeCloudUpdate, fading one update behind.
SmokeCloudUpdateLingering(c) ==
    LET cur == c.current_lifetime + 1
    IN IF cur > c.lifetime
       THEN [c EXCEPT !.current_lifetime = cur, !.alpha = 0]
       ELSE [c EXCEPT !.current_lifetime = cur,
                      !.alpha = ClampAlpha(c.lifetime - cur + 1, c.lifetime)]

\* SmokeCloud.update (lines 157-169)
SmokeCloudUpdate(c) ==
    LET cur == c.current_lifetime + 1
    IN IF cur > c.lifetime
       THEN [c EXCEPT !.current_lifetime = cur, !.alpha = 0]
       ELSE [c EXCEPT !.current_lifetime = cur,
                      !.alpha = ClampAlpha(c.lifetime - cur, c.lifetime)]

\* NewSpark, at the corner of the screen instead of the given place.
NewSparkAtCorner(pos) ==
    [origin |-> Vec(0, 0), lifetime |-> SPARK_LIFETIME, alpha |-> 255 * Scale]

\* Spark.__init__ (lines 239-245)
NewSpark(pos) == [origin |-> pos, lifetime |-> SPARK_LIFETIME, alpha |-> 255 * Scale]

\* Spark.update (lines 247-251)
SparkUpdate(sp) ==
    [sp EXCEPT !.lifetime = sp.lifetime - 1,
               !.alpha = ClampAlpha(sp.lifetime - 1, SPARK_LIFETIME)]

\* ExplosionCore.__init__ (lines 101-105)
NewExplosionCore(pos) == [pos |-> pos, alpha |-> 255 * Scale]

\* ExplosionCoreUpdate, with the progress of the frame before.
ExplosionCoreUpdateLate(core, timer, expand_duration) ==
    [core EXCEPT !.alpha = ClampAlpha(expand_duration - timer + 1, expand_duration)]

\* ExplosionCore.update (lines 107-109): progress = timer / expand_duration
ExplosionCoreUpdate(core, timer, expand_duration) ==
    [core EXCEPT !.alpha = ClampAlpha(expand_duration - timer, expand_duration)]

\* The random.random() < BRANCH_CHANCE outcomes of one arc, as a shape: one
\* entry per segment, <<>> for "no branch" and <<s>> for "branch, and the
\* child draws the shape s".
NoBranch == [i \in 1..NUM_SEGMENTS |-> <<>>]

AllBranch == [i \in 1..NUM_SEGMENTS |-> <<NoBranch>>]

DeepBranch ==
    [NoBranch EXCEPT ![3] = << [NoBranch EXCEPT ![1] = <<AllBranch>>] >>]

\* Every segment branches, and so does every segment of the children and of
\* their children.
FullBranch == [i \in 1..NUM_SEGMENTS |-> << [j \in 1..NUM_SEGMENTS |-> <<AllBranch>>] >>]

\* NewElectricalArc, branching at any depth.
RECURSIVE NewElectricalArcUncapped(_, _, _, _)
NewElectricalArcUncapped(current_jitter, current_length, depth, shape) ==
    LET Child(i) ==
            IF shape[i] # <<>>
            THEN <<NewElectricalArcUncapped((current_jitter * 7) \div 10,
                                            current_length \div 2,
                                            depth + 1, shape[i][1])>>
            ELSE <<>>
        RECURSIVE Children(_)
        Children(i) == IF i > NUM_SEGMENTS THEN <<>> ELSE Child(i) \o Children(i + 1)
    IN [lifetime |-> ARC_LIFETIME, alpha |-> 255 * Scale,
        current_jitter |-> current_jitter, current_length |-> current_length,
        depth |-> depth, child_arcs |-> Children(1)]

\* ElectricalArc.__init__ and _generate_arc_points (lines 183-221)
RECURSIVE NewElectricalArc(_, _, _, _)
NewElectricalArc(current_jitter, current_length, depth, shape) ==
    LET Child(i) ==
            IF depth < MAX_BRANCH_DEPTH /\ shape[i] # <<>>
            THEN <<NewElectricalArc((current_jitter * 7) \div 10, current_length \div 2,
                                    depth + 1, shape[i][1])>>
            ELSE <<>>
        RECURSIVE Children(_)
        Children(i) == IF i > NUM_SEGMENTS THEN <<>> ELSE Child(i) \o Children(i + 1)
    IN [lifetime |-> ARC_LIFETIME, alpha |-> 255 * Scale,
        current_jitter |-> current_jitter, current_length |-> current_length,
        depth |-> depth, child_arcs |-> Children(1)]

\* ElectricalArc.update (lines 223-228)
RECURSIVE ElectricalArcUpdate(_)
ElectricalArcUpdate(arc) ==
    [arc EXCEPT !.lifetime = arc.lifetime - 1,
                !.alpha = ClampAlpha(arc.lifetime - 1, ARC_LIFETIME),
                !.child_arcs = [i \in 1..Len(arc.child_arcs) |->
                                    ElectricalArcUpdate(arc.child_arcs[i])]]

\* for x in lst[:]: x.update(); if x.alpha <= 0: lst.remove(x)   (lines 312-327)
RECURSIVE UpdateAndReap(_, _)
UpdateAndReap(Upd(_), lst) ==
    IF lst = <<>> THEN <<>>
    ELSE LET x == Upd(Head(lst))
         IN IF x.alpha <= 0 THEN UpdateAndReap(Upd, Tail(lst))
            ELSE <<x>> \o UpdateAndReap(Upd, Tail(lst))

\* The outcomes of one "num_arcs = random.randint(1, 2)" spawn (lines 335-343):
\* the shapes of the arcs it creates.
ArcSpawnDraws == { <<NoBranch>>, <<NoBranch, DeepBranch>> }

SpawnArcs(shapes) ==
    [i \in 1..Len(shapes) |->
        NewElectricalArc(Px(ARC_JITTER), Px(ARC_LENGTH), 0, shapes[i])]

\* random.randint(2, 4) (lines 354, 399)
MiniExplosionCounts == 2..4

----------------------------------------------------------------------------
(* Debris pieces: src/asteroid_destruction_module.py and
   src/backup003/ship_destruction_module.py.
   x, y and velocity are in 1/Scale pixel, lifetime and dt_factor in 1/Scale
   frame (dt_factor = Scale is the default 1.0), alpha is the integer the
   code stores, image is the size of the surface cropped for the piece.
   ticks counts the update() calls a piece has had and made keeps what the
   constructor received; neither is a field of the code. *)

MIN_DEBRIS_LIFETIME_SUCK == 120
MAX_DEBRIS_LIFETIME_SUCK == 240
MIN_DEBRIS_LIFETIME_EXPLODE == 60
MAX_DEBRIS_LIFETIME_EXPLODE == 120
MIN_DEBRIS_LIFETIME == 240
MAX_DEBRIS_LIFETIME == 400

\* a * b for two fixed point numbers
MulFix(a, b) == TruncDiv(a * b, Scale)

\* math.hypot of two fixed point numbers, to 1/20 pixel
HypotUnit == Scale \div 20

Hypot(dx, dy) ==
    LET dxc == TruncDiv(dx, HypotUnit)
        dyc == TruncDiv(dy, HypotUnit)
    IN Isqrt(dxc * dxc + dyc * dyc) * HypotUnit

\* AttractStep, taking what stands at the centre to be pulled along +x.
AttractStepAlongX(x, y, dx, dy, distance, swirl_strength) ==
    LET attraction_speed == 4 * Scale
        tangential_speed == TruncDiv(76 * swirl_strength, 10)
        nx == IF distance > 0
              THEN TruncDiv(TruncDiv(dx, HypotUnit) * Scale, distance \div HypotUnit)
              ELSE Scale
        ny == IF distance > 0
              THEN TruncDiv(TruncDiv(dy, HypotUnit) * Scale, distance \div HypotUnit)
              ELSE 0
        tangential_vx == MulFix(-ny, tangential_speed)
        tangential_vy == MulFix(nx, tangential_speed)
    IN Vec(x + MulFix(nx, attraction_speed) + tangential_vx,
           y + MulFix(ny, attraction_speed) + tangential_vy)

\* AttractStep, swirling the other way round.
AttractStepClockwise(x, y, dx, dy, distance, swirl_strength) ==
    IF distance > 0
    THEN LET attraction_speed == 4 * Scale
             tangential_speed == TruncDiv(76 * swirl_strength, 10)
             nx == TruncDiv(TruncDiv(dx, HypotUnit) * Scale, distance \div HypotUnit)
             ny == TruncDiv(TruncDiv(dy, HypotUnit) * Scale, distance \div HypotUnit)
             tangential_vx == MulFix(ny, tangential_speed)
             tangential_vy == MulFix(-nx, tangential_speed)
         IN Vec(x + MulFix(nx, attraction_speed) + tangential_vx,
                y + MulFix(ny, attraction_speed) + tangential_vy)
    ELSE Vec(x, y)

\* AttractStep, pushing away from the centre.
AttractStepRepel(x, y, dx, dy, distance, swirl_strength) ==
    IF distance > 0
    THEN LET attraction_speed == -4 * Scale
             tangential_speed == TruncDiv(76 * swirl_strength, 10)
             nx == TruncDiv(TruncDiv(dx, HypotUnit) * Scale, distance \div HypotUnit)
             ny == TruncDiv(TruncDiv(dy, HypotUnit) * Scale, distance \div HypotUnit)
             tangential_vx == MulFix(-ny, tangential_speed)
             tangential_vy == MulFix(nx, tangential_speed)
         IN Vec(x + MulFix(nx, attraction_speed) + tangential_vx,
                y + MulFix(ny, attraction_speed) + tangential_vy)
    ELSE Vec(x, y)

\* AttractStep, with the swirl and without the pull.
AttractStepOrbiting(x, y, dx, dy, distance, swirl_strength) ==
    IF distance > 0
    THEN LET tangential_speed == TruncDiv(76 * swirl_strength, 10)
             nx == TruncDiv(TruncDiv(dx, HypotUnit) * Scale, distance \div HypotUnit)
             ny == TruncDiv(TruncDiv(dy, HypotUnit) * Scale, distance \div HypotUnit)
         IN Vec(x + MulFix(-ny, tangential_speed), y + MulFix(nx, tangential_speed))
    ELSE Vec(x, y)

\* The pull of a collapsing piece toward the centre of the screen with its
\* swirl (AsteroidDebrisPiece.update lines 59-75): the new position, given
\* the distance found on line 58.
AttractStep(x, y, dx, dy, distance, swirl_strength) ==
    IF distance > 0
    THEN LET attraction_speed == 4 * Scale
             tangential_speed == TruncDiv(76 * swirl_strength, 10)
             nx == TruncDiv(TruncDiv(dx, HypotUnit) * Scale, distance \div HypotUnit)
             ny == TruncDiv(TruncDiv(dy, HypotUnit) * Scale, distance \div HypotUnit)
             tangential_vx == MulFix(-ny, tangential_speed)
             tangential_vy == MulFix(nx, tangential_speed)
         IN Vec(x + MulFix(nx, attraction_speed) + tangential_vx,
                y + MulFix(ny, attraction_speed) + tangential_vy)
    ELSE Vec(x, y)

\* NewAsteroidDebrisPiece, never to be sucked in.
NewAsteroidDebrisPieceAdrift(image, x, y, velocity, rotation_speed, draw) ==
    [image |-> image, cls |-> "AsteroidDebrisPiece", x |-> x, y |-> y, velocity |-> velocity,
     rotation_speed |-> rotation_speed, rotation_angle |-> 0,
     lifetime |-> Px(draw.lifetime), alpha |-> 255, sucked_in |-> FALSE,
     suck_in_timer |-> 0, swirl_strength |-> draw.swirl,
     ticks |-> 0, made |-> [x |-> x, y |-> y, lifetime |-> Px(draw.lifetime)]]

\* AsteroidDebrisPiece.__init__ (lines 30-44); lifetime is the draw of
\* random.randint(120, 240), swirl_strength that of random.uniform(0.5, 1.5).
NewAsteroidDebrisPiece(image, x, y, velocity, rotation_speed, draw) ==
    [image |-> image, cls |-> "AsteroidDebrisPiece", x |-> x, y |-> y, velocity |-> velocity,
     rotation_speed |-> rotation_speed, rotation_angle |-> 0,
     lifetime |-> Px(draw.lifetime), alpha |-> 255, sucked_in |-> FALSE,
     suck_in_timer |-> Px(draw.lifetime \div 2), swirl_strength |-> draw.swirl,
     ticks |-> 0, made |-> [x |-> x, y |-> y, lifetime |-> Px(draw.lifetime)]]

\* AsteroidDebrisPiece.update, a FLOATING piece slowed by the drag of
\* CinematicDebris.
AsteroidDebrisPieceUpdateDrag(p, dt_factor, cx, cy) ==
    LET moved ==
            IF ~p.sucked_in
            THEN LET lifetime == p.lifetime - dt_factor
                 IN [p EXCEPT
                        !.x = p.x + MulFix(p.velocity[1], dt_factor),
                        !.y = p.y + MulFix(p.velocity[2], dt_factor),
                        !.velocity = Vec(TruncDiv(p.velocity[1] * DragNum, DragDen),
                                         TruncDiv(p.velocity[2] * DragNum, DragDen)),
                        !.rotation_angle = p.rotation_angle + MulFix(p.rotation_speed, dt_factor),
                        !.lifetime = lifetime,
                        !.sucked_in = (lifetime <= p.suck_in_timer)]
            ELSE LET dx == cx - p.x
                     dy == cy - p.y
                     distance == Hypot(dx, dy)
                     pos == AttractStep(p.x, p.y, dx, dy, distance, p.swirl_strength)
                 IN [p EXCEPT
                        !.x = pos[1],
                        !.y = pos[2],
                        !.alpha = IF distance < Px(100)
                                  THEN Max(0, TruncDiv(255 * distance, Px(100)))
                                  ELSE p.alpha,
                        !.lifetime = IF distance < Px(60) THEN 0 ELSE p.lifetime]
        aged == [moved EXCEPT !.ticks = p.ticks + 1]
    IN IF aged.lifetime <= 0 THEN [aged EXCEPT !.alpha = 0] ELSE aged

\* AsteroidDebrisPiece.update, a piece that is sucked in flying, turning and
\* ageing on as it did before.
AsteroidDebrisPieceUpdateBallistic(p, dt_factor, cx, cy) ==
    LET moved ==
            IF ~p.sucked_in
            THEN LET lifetime == p.lifetime - dt_factor
                 IN [p EXCEPT
                        !.x = p.x + MulFix(p.velocity[1], dt_factor),
                        !.y = p.y + MulFix(p.velocity[2], dt_factor),
                        !.rotation_angle = p.rotation_angle + MulFix(p.rotation_speed, dt_factor),
                        !.lifetime = lifetime,
                        !.sucked_in = (lifetime <= p.suck_in_timer)]
            ELSE LET dx == cx - p.x
                     dy == cy - p.y
                     distance == Hypot(dx, dy)
                     pos == AttractStep(p.x, p.y, dx, dy, distance, p.swirl_strength)
                 IN [p EXCEPT
                        !.x = pos[1] + MulFix(p.velocity[1], dt_factor),
                        !.y = pos[2] + MulFix(p.velocity[2], dt_factor),
                        !.rotation_angle = p.rotation_angle + MulFix(p.rotation_speed, dt_factor),
                        !.alpha = IF distance < Px(100)
                                  THEN Max(0, TruncDiv(255 * distance, Px(100)))
                                  ELSE p.alpha,
                        !.lifetime = IF distance < Px(60) THEN 0
                                     ELSE Max(Scale, p.lifetime - dt_factor)]
        aged == [moved EXCEPT !.ticks = p.ticks + 1]
    IN IF aged.lifetime <= 0 THEN [aged EXCEPT !.alpha = 0] ELSE aged

\* AsteroidDebrisPieceUpdate, without the last two lines (85-86).
AsteroidDebrisPieceUpdateStillLit(p, dt_factor, cx, cy) ==
    LET moved ==
            IF ~p.sucked_in
            THEN LET lifetime == p.lifetime - dt_factor
                 IN [p EXCEPT
                        !.x = p.x + MulFix(p.velocity[1], dt_factor),
                        !.y = p.y + MulFix(p.velocity[2], dt_factor),
                        !.rotation_angle = p.rotation_angle + MulFix(p.rotation_speed, dt_factor),
                        !.lifetime = lifetime,
                        !.sucked_in = (lifetime <= p.suck_in_timer)]
            ELSE LET dx == cx - p.x
                     dy == cy - p.y
                     distance == Hypot(dx, dy)
                     pos == AttractStep(p.x, p.y, dx, dy, distance, p.swirl_strength)
                 IN [p EXCEPT
                        !.x = pos[1],
                        !.y = pos[2],
                        !.alpha = IF distance < Px(100)
                                  THEN Max(0, TruncDiv(255 * distance, Px(100)))
                                  ELSE p.alpha,
                        !.lifetime = IF distance < Px(60) THEN 0 ELSE p.lifetime]
        aged == [moved EXCEPT !.ticks = p.ticks + 1]
    IN aged

\* AsteroidDebrisPiece.update (lines 46-86); (cx, cy) is
\* (game.original_screen_width // 2, game.original_screen_height // 2).
AsteroidDebrisPieceUpdate(p, dt_factor, cx, cy) ==
    LET moved ==
            IF ~p.sucked_in
            THEN LET lifetime == p.lifetime - dt_factor
                 IN [p EXCEPT
                        !.x = p.x + MulFix(p.velocity[1], dt_factor),
                        !.y = p.y + MulFix(p.velocity[2], dt_factor),
                        !.rotation_angle = p.rotation_angle + MulFix(p.rotation_speed, dt_factor),
                        !.lifetime = lifetime,
                        !.sucked_in = (lifetime <= p.suck_in_timer)]
            ELSE LET dx == cx - p.x
                     dy == cy - p.y
                     distance == Hypot(dx, dy)
                     pos == AttractStep(p.x, p.y, dx, dy, distance, p.swirl_strength)
                 IN [p EXCEPT
                        !.x = pos[1],
                        !.y = pos[2],
                        !.alpha = IF distance < Px(100)
                                  THEN Max(0, TruncDiv(255 * distance, Px(100)))
                                  ELSE p.alpha,
                        !.lifetime = IF distance < Px(60) THEN 0 ELSE p.lifetime]
        aged == [moved EXCEPT !.ticks = p.ticks + 1]
    IN IF aged.lifetime <= 0 THEN [aged EXCEPT !.alpha = 0] ELSE aged

\* NewExplodingDebrisPiece, fading against the shortest lifetime.
NewExplodingDebrisPieceShort(image, x, y, velocity, rotation_speed, draw) ==
    [image |-> image, cls |-> "ExplodingDebrisPiece", x |-> x, y |-> y, velocity |-> velocity,
     rotation_speed |-> rotation_speed, rotation_angle |-> 0,
     lifetime |-> Px(draw.lifetime), max_lifetime |-> Px(MIN_DEBRIS_LIFETIME_EXPLODE),
     alpha |-> 255,
     ticks |-> 0, made |-> [x |-> x, y |-> y, lifetime |-> Px(draw.lifetime)]]

\* ExplodingDebrisPiece.__init__ (lines 110-119)
NewExplodingDebrisPiece(image, x, y, velocity, rotation_speed, draw) ==
    [image |-> image, cls |-> "ExplodingDebrisPiece", x |-> x, y |-> y, velocity |-> velocity,
     rotation_speed |-> rotation_speed, rotation_angle |-> 0,
     lifetime |-> Px(draw.lifetime), max_lifetime |-> Px(MAX_DEBRIS_LIFETIME_EXPLODE),
     alpha |-> 255,
     ticks |-> 0, made |-> [x |-> x, y |-> y, lifetime |-> Px(draw.lifetime)]]

\* ExplodingDebrisPiece.update, fading against the lifetime the piece was
\* made with.
ExplodingDebrisPieceUpdateOwnLifetime(p, dt_factor) ==
    LET lifetime == p.lifetime - dt_factor
    IN [p EXCEPT
           !.x = p.x + MulFix(p.velocity[1], dt_factor),
           !.y = p.y + MulFix(p.velocity[2], dt_factor),
           !.rotation_angle = p.rotation_angle + MulFix(p.rotation_speed, dt_factor),
           !.lifetime = lifetime,
           !.ticks = p.ticks + 1,
           !.alpha = IF lifetime <= 0 THEN 0
                     ELSE TruncDiv(255 * lifetime, p.made.lifetime)]

\* ExplodingDebrisPiece.update (lines 121-132)
ExplodingDebrisPieceUpdate(p, dt_factor) ==
    LET lifetime == p.lifetime - dt_factor
    IN [p EXCEPT
           !.x = p.x + MulFix(p.velocity[1], dt_factor),
           !.y = p.y + MulFix(p.velocity[2], dt_factor),
           !.rotation_angle = p.rotation_angle + MulFix(p.rotation_speed, dt_factor),
           !.lifetime = lifetime,
           !.ticks = p.ticks + 1,
           !.alpha = IF lifetime <= 0 THEN 0
                     ELSE TruncDiv(255 * lifetime, p.max_lifetime)]

\* DebrisPiece.__init__ (src/backup003/ship_destruction_module.py:19-28)
NewDebrisPiece(image, x, y, velocity, rotation_speed, draw) ==
    [image |-> image, cls |-> "DebrisPiece", x |-> x, y |-> y, velocity |-> velocity,
     rotation_speed |-> rotation_speed, rotation_angle |-> 0,
     lifetime |-> Px(draw.lifetime), alpha |-> 255,
     ticks |-> 0, made |-> [x |-> x, y |-> y, lifetime |-> Px(draw.lifetime)]]

\* DebrisPiece.update (src/backup003/ship_destruction_module.py:30-38)
DebrisPieceUpdate(p, dt_factor) ==
    LET lifetime == p.lifetime - dt_factor
    IN [p EXCEPT
           !.x = p.x + MulFix(p.velocity[1], dt_factor),
           !.y = p.y + MulFix(p.velocity[2], dt_factor),
           !.rotation_angle = p.rotation_angle + MulFix(p.rotation_speed, dt_factor),
           !.lifetime = lifetime,
           !.ticks = p.ticks + 1,
           !.alpha = IF lifetime <= 60 * dt_factor
                     THEN Max(0, TruncDiv(255 * lifetime, 60 * dt_factor))
                     ELSE p.alpha]

----------------------------------------------------------------------------
(* Sucking particles: src/particle_module.py *)

\* int(round(v)) of a fixed point number: halves go to the even pixel.
RoundPx(v) ==
    LET q == v \div Scale
        r == v % Scale
    IN IF 2 * r < Scale THEN q
       ELSE IF 2 * r > Scale THEN q + 1
       ELSE IF q % 2 = 0 THEN q ELSE q + 1

\* SuckingParticle.__init__ (lines 7-21); draw holds random.uniform(-2, 2)
\* twice and random.uniform(0.5, 1.5).  The size only shapes the image.
NewSuckingParticle(position, draw) ==
    [x |-> position[1], y |-> position[2], vx |-> draw.vx, vy |-> draw.vy,
     lifespan |-> 60, sucked_in |-> FALSE, suck_in_timer |-> 30,
     swirl_strength |-> draw.swirl,
     rect_center |-> Vec(RoundPx(position[1]), RoundPx(position[2]))]

\* ParticleAttractStep, with a swirl of 1.8 times the pull.
ParticleAttractStepLessSwirl(x, y, dx, dy, distance, swirl_strength) ==
    IF distance > 0
    THEN LET attraction_speed == 4 * Scale
             tangential_speed == TruncDiv(72 * swirl_strength, 10)
             nx == TruncDiv(TruncDiv(dx, HypotUnit) * Scale, distance \div HypotUnit)
             ny == TruncDiv(TruncDiv(dy, HypotUnit) * Scale, distance \div HypotUnit)
             tangential_vx == MulFix(-ny, tangential_speed)
             tangential_vy == MulFix(nx, tangential_speed)
         IN Vec(x + MulFix(nx, attraction_speed) + tangential_vx,
                y + MulFix(ny, attraction_speed) + tangential_vy)
    ELSE Vec(x, y)

\* The pull of a particle that is sucked in (SuckingParticle.update lines
\* 34-42): the new position, given the distance found on line 33.
ParticleAttractStep(x, y, dx, dy, distance, swirl_strength) ==
    IF distance > 0
    THEN LET attraction_speed == 4 * Scale
             tangential_speed == TruncDiv(76 * swirl_strength, 10)
             nx == TruncDiv(TruncDiv(dx, HypotUnit) * Scale, distance \div HypotUnit)
             ny == TruncDiv(TruncDiv(dy, HypotUnit) * Scale, distance \div HypotUnit)
             tangential_vx == MulFix(-ny, tangential_speed)
             tangential_vy == MulFix(nx, tangential_speed)
         IN Vec(x + MulFix(nx, attraction_speed) + tangential_vx,
                y + MulFix(ny, attraction_speed) + tangential_vy)
    ELSE Vec(x, y)

\* SuckingParticle.update (lines 23-43); (cx, cy) is
\* (game.original_screen_width // 2, game.original_screen_height // 2).
SuckingParticleUpdate(p, cx, cy) ==
    LET moved ==
            IF ~p.sucked_in
            THEN [p EXCEPT !.x = p.x + p.vx,
                           !.y = p.y + p.vy,
                           !.lifespan = p.lifespan - 1,
                           !.sucked_in = (p.lifespan - 1 <= p.suck_in_timer)]
            ELSE LET dx == cx - p.x
                     dy == cy - p.y
                     distance == Hypot(dx, dy)
                     pos == ParticleAttractStep(p.x, p.y, dx, dy, distance,
                                                p.swirl_strength)
                 IN [p EXCEPT !.x = pos[1], !.y = pos[2]]
    IN [moved EXCEPT !.rect_center = Vec(RoundPx(moved.x), RoundPx(moved.y))]

\* "for _ in range(20)" (line 49)
PARTICLES_PER_SYSTEM == 20

\* SuckingParticleSystem.__init__ (lines 46-52): the particles of the group.
NewSuckingParticleSystem(position, draws) ==
    [i \in 1..PARTICLES_PER_SYSTEM |-> NewSuckingParticle(position, draws[i])]

\* Lines 57-60: a particle inside the event horizon (50 * 1.2) or spent.
ParticleGone(p, cx, cy) ==
    Hypot(p.x - cx, p.y - cy) < Px(60) \/ p.lifespan <= 0

\* SuckingParticleSystem.update (lines 54-60), after particles.update().
RECURSIVE RemoveGone(_, _, _)
RemoveGone(particles, cx, cy) ==
    IF particles = <<>> THEN <<>>
    ELSE IF ParticleGone(Head(particles), cx, cy)
         THEN RemoveGone(Tail(particles), cx, cy)
         ELSE <<Head(particles)>> \o RemoveGone(Tail(particles), cx, cy)

----------------------------------------------------------------------------
(* _create_debris_base and create_ship_debris *)

\* Triangulations of a w x h image, as triangles of points.
TriHalves(w, h) ==
    << <<Pt(0, 0), Pt(w, 0), Pt(0, h)>>,
       <<Pt(w, 0), Pt(w, h), Pt(0, h)>> >>

\* The corners, the centre and four ring points: the left one half a pixel
\* inside the border, the bottom one 0.4 pixel inside, the top and the right
\* one 2 and 3 pixels outside.  The slivers along the left and the bottom
\* border are under one pixel.
TriBorder(w, h) ==
    LET tl == Pt(0, 0)
        tr == Pt(w, 0)
        bl == Pt(0, h)
        br == Pt(w, h)
        c == Pt(w \div 2, h \div 2)
        left == Vec(Sub \div 2, (h \div 2) * Sub)
        bottom == Vec((w \div 2) * Sub, h * Sub - (2 * Sub) \div 5)
        top == Pt(w \div 2, -2)
        right == Pt(w + 3, h \div 2)
    IN << <<tl, bl, left>>,
          <<tl, left, c>>,
          <<left, bl, c>>,
          <<bl, br, bottom>>,
          <<bl, bottom, c>>,
          <<bottom, br, c>>,
          <<tl, top, c>>,
          <<top, tr, c>>,
          <<tr, right, c>>,
          <<right, br, c>> >>

\* cos and sin of the jitter random.uniform(-pi/8, pi/8) added to the
\* direction (line 246), at both ends and in the middle; the ship's jitter
\* is random.uniform(-pi/16, pi/16).
NoJitter == [c |-> Scale, s |-> 0]

JitterPi8 == [c |-> 9239, s |-> 3827]

JitterMinusPi16 == [c |-> 9808, s |-> -1951]

\* (cos, sin) of atan2(dy2, dx2) turned by the jitter, times the speed
\* (lines 245-252).
JitteredVelocity(dx2, dy2, jitter, debris_speed) ==
    LET d100 == Isqrt((dx2 * dx2 + dy2 * dy2) * (10000 \div (Sub * Sub)))
        ux == IF d100 = 0 THEN Scale ELSE TruncDiv(dx2 * (100 \div Sub) * Scale, d100)
        uy == IF d100 = 0 THEN 0 ELSE TruncDiv(dy2 * (100 \div Sub) * Scale, d100)
        vx == TruncDiv(ux * jitter.c - uy * jitter.s, Scale)
        vy == TruncDiv(ux * jitter.s + uy * jitter.c, Scale)
    IN Vec(MulFix(vx, debris_speed), MulFix(vy, debris_speed))

\* speed_modifier = 0.5 + dist_from_center / max_radius (lines 248-249, ship
\* lines 131-132); ax2, ay2 are the two arguments of math.hypot in
\* halves of 1/Sub pixel.
SpeedModifier(ax2, ay2, img_width, img_height) ==
    LET d100 == Isqrt((ax2 * ax2 + ay2 * ay2) * (10000 \div (Sub * Sub)))
    IN (Scale \div 2) + TruncDiv(d100 * (Scale \div 100), Max(img_width, img_height))

\* The piece of one triangle of the asteroid image (lines 216-259).  Line 249
\* measures the distance as hypot(piece_center_x - centery,
\* piece_center_y - centerx).
AsteroidPiece(piece_class, bb, img_width, img_height, center_x, center_y, draw) ==
    LET cx2 == 2 * bb.min_x + bb.bbox_width
        cy2 == 2 * bb.min_y + bb.bbox_height
        centerx2 == 2 * Sub * (img_width \div 2)
        centery2 == 2 * Sub * (img_height \div 2)
        x == center_x + ((cx2 - img_width * Sub) * Scale) \div (2 * Sub)
        y == center_y + ((cy2 - img_height * Sub) * Scale) \div (2 * Sub)
        speed_modifier == SpeedModifier(cx2 - centery2, cy2 - centerx2, img_width, img_height)
        velocity == JitteredVelocity(cx2 - centerx2, cy2 - centery2, draw.jitter,
                                     MulFix(draw.speed, speed_modifier))
        cropped_part == CroppedPart(bb)
    IN IF piece_class = "AsteroidDebrisPiece"
       THEN NewAsteroidDebrisPiece(cropped_part, x, y, velocity, draw.rot, draw)
       ELSE NewExplodingDebrisPiece(cropped_part, x, y, velocity, draw.rot, draw)

RECURSIVE AsteroidPieces(_, _, _, _, _, _, _)
AsteroidPieces(piece_class, simplices, img_width, img_height, center_x, center_y, draws) ==
    IF simplices = <<>> THEN <<>>
    ELSE LET bb == ClampedBBox(Head(simplices), img_width, img_height)
         IN IF SubPixel(bb)
            THEN AsteroidPieces(piece_class, Tail(simplices), img_width, img_height,
                                center_x, center_y, draws)
            ELSE <<AsteroidPiece(piece_class, bb, img_width, img_height,
                                 center_x, center_y, Head(draws))>>
                 \o AsteroidPieces(piece_class, Tail(simplices), img_width, img_height,
                                   center_x, center_y, Tail(draws))

\* CreateDebrisBase that falls back on the two halves of the image when the
\* triangulation raises.
CreateDebrisBaseWhole(piece_class, in) ==
    AsteroidPieces(piece_class,
                   IF in.tri.ok THEN in.tri.simplices
                   ELSE TriHalves(in.img_width, in.img_height),
                   in.img_width, in.img_height, in.center_x, in.center_y, in.draws)

\* _create_debris_base (lines 183-262): [] when the triangulation raises.
CreateDebrisBase(piece_class, in) ==
    IF ~in.tri.ok THEN <<>>
    ELSE AsteroidPieces(piece_class, in.tri.simplices, in.img_width, in.img_height,
                        in.center_x, in.center_y, in.draws)

\* ShipPiece, placed with the corner of its box where its centre belongs.
ShipPieceAtCorner(bb, ship_width, ship_height, center_x, center_y, draw) ==
    LET cx2 == 2 * bb.min_x + bb.bbox_width
        cy2 == 2 * bb.min_y + bb.bbox_height
        centerx2 == 2 * Sub * (ship_width \div 2)
        centery2 == 2 * Sub * (ship_height \div 2)
        speed_modifier == SpeedModifier(cx2 - centerx2, cy2 - centery2, ship_width, ship_height)
    IN NewDebrisPiece(CroppedPart(bb),
                      center_x + ((2 * bb.min_x - ship_width * Sub) * Scale) \div (2 * Sub),
                      center_y + ((2 * bb.min_y - ship_height * Sub) * Scale) \div (2 * Sub),
                      JitteredVelocity(cx2 - centerx2, cy2 - centery2, draw.jitter,
                                       MulFix(draw.speed, speed_modifier)),
                      draw.rot, draw)

\* The piece of one triangle of the ship image
\* (src/backup003/ship_destruction_module.py:90-139).
ShipPiece(bb, ship_width, ship_height, center_x, center_y, draw) ==
    LET cx2 == 2 * bb.min_x + bb.bbox_width
        cy2 == 2 * bb.min_y + bb.bbox_height
        centerx2 == 2 * Sub * (ship_width \div 2)
        centery2 == 2 * Sub * (ship_height \div 2)
        speed_modifier == SpeedModifier(cx2 - centerx2, cy2 - centery2, ship_width, ship_height)
    IN NewDebrisPiece(CroppedPart(bb),
                      center_x + ((cx2 - ship_width * Sub) * Scale) \div (2 * Sub),
                      center_y + ((cy2 - ship_height * Sub) * Scale) \div (2 * Sub),
                      JitteredVelocity(cx2 - centerx2, cy2 - centery2, draw.jitter,
                                       MulFix(draw.speed, speed_modifier)),
                      draw.rot, draw)

RECURSIVE ShipPieces(_, _, _, _, _, _)
ShipPieces(simplices, ship_width, ship_height, center_x, center_y, draws) ==
    IF simplices = <<>> THEN <<>>
    ELSE LET bb == ClampedBBox(Head(simplices), ship_width, ship_height)
         IN IF SubPixel(bb)
            THEN ShipPieces(Tail(simplices), ship_width, ship_height,
                            center_x, center_y, draws)
            ELSE <<ShipPiece(bb, ship_width, ship_height, center_x, center_y, Head(draws))>>
                 \o ShipPieces(Tail(simplices), ship_width, ship_height,
                               center_x, center_y, Tail(draws))

\* create_ship_debris (src/backup003/ship_destruction_module.py:52-141)
CreateShipDebris(in) ==
    IF ~in.tri.ok THEN <<>>
    ELSE ShipPieces(in.tri.simplices, in.img_width, in.img_height,
                    in.center_x, in.center_y, in.draws)

----------------------------------------------------------------------------
(* The hosts' debris lists: src/black_hole_runV08.py (asteroid debris) and
   src/black_hole_runV09.py (ship debris in the DESTRUCTION state) *)

\* Asteroids the player may shatter before the exploration stops.
MaxSpawns == 1

\* The draws of one piece: random.uniform(min_speed, max_speed),
\* random.uniform(min_rot_speed, max_rot_speed), the jitter of the direction,
\* random.randint of the lifetime range and, for a piece that is sucked in,
\* random.uniform(0.5, 1.5).
SuckDraws ==
    << [speed |-> Scale \div 2, rot |-> Px(-5), jitter |-> NoJitter,
        lifetime |-> MIN_DEBRIS_LIFETIME_SUCK, swirl |-> Scale \div 2],
       [speed |-> (3 * Scale) \div 2, rot |-> Px(5), jitter |-> JitterPi8,
        lifetime |-> MAX_DEBRIS_LIFETIME_SUCK, swirl |-> (3 * Scale) \div 2],
       [speed |-> Scale, rot |-> 0, jitter |-> NoJitter,
        lifetime |-> MIN_DEBRIS_LIFETIME_SUCK + 1, swirl |-> Scale] >>

ExplodeDraws ==
    << [speed |-> Px(2), rot |-> Px(-8), jitter |-> JitterPi8,
        lifetime |-> MIN_DEBRIS_LIFETIME_EXPLODE],
       [speed |-> Px(4), rot |-> Px(8), jitter |-> NoJitter,
        lifetime |-> MAX_DEBRIS_LIFETIME_EXPLODE],
       [speed |-> Px(3), rot |-> 0, jitter |-> NoJitter,
        lifetime |-> MIN_DEBRIS_LIFETIME_EXPLODE + 1] >>

ShipDraws ==
    << [speed |-> (15 * Scale) \div 100, rot |-> Px(-2), jitter |-> NoJitter,
        lifetime |-> MIN_DEBRIS_LIFETIME],
       [speed |-> (6 * Scale) \div 10, rot |-> Px(2), jitter |-> JitterMinusPi16,
        lifetime |-> MAX_DEBRIS_LIFETIME],
       [speed |-> (6 * Scale) \div 10, rot |-> 0, jitter |-> NoJitter,
        lifetime |-> MIN_DEBRIS_LIFETIME + 1] >>

\* The draws of the four pieces of TriFan; the second flies along +x at one
\* pixel a frame and lives 120 frames.
FanDraws ==
    << SuckDraws[3],
       [speed |-> Scale, rot |-> Px(3), jitter |-> NoJitter,
        lifetime |-> MIN_DEBRIS_LIFETIME_SUCK, swirl |-> Scale],
       SuckDraws[1],
       SuckDraws[2] >>

\* The draws of n pieces, taken in turn from the given ones.
DrawsInTurn(draws, n) == [i \in 1..n |-> draws[((i - 1) % Len(draws)) + 1]]

Failed == [ok |-> FALSE, simplices |-> <<>>]

\* The draws of the particles of one system: vx, vy and swirl_strength.
ParticleDraws ==
    [i \in 1..PARTICLES_PER_SYSTEM |->
        [vx |-> ((i % 5) - 2) * Scale,
         vy |-> (((i \div 5) % 3) - 1) * ((3 * Scale) \div 2),
         swirl |-> ((5 + (i % 11)) * Scale) \div 10]]

\* What handle_collisions finds in a frame (src/black_hole_runV08.py:760-795):
\* no asteroid hit, an asteroid taken by the shield, an ExplodingObstacle hit,
\* or a plain asteroid broken.
Shatter(kind, w, h, x, y, tri, draws) ==
    [kind |-> kind, img_width |-> w, img_height |-> h, center_x |-> Px(x),
     center_y |-> Px(y), tri |-> tri, draws |-> draws]

NoHit == Shatter("none", 0, 0, 0, 0, Failed, <<>>)

Collisions ==
    { Shatter("exploding", 60, 60, 200, 150,
              [ok |-> TRUE, simplices |-> TriHalves(60, 60)], ExplodeDraws),
      Shatter("exploding", 80, 50, 900, 700, Failed, ExplodeDraws),
      Shatter("sucking", 80, 50, 300, 380,
              [ok |-> TRUE, simplices |-> TriBorder(80, 50)],
              DrawsInTurn(SuckDraws, Len(TriBorder(80, 50)))),
      Shatter("sucking", 60, 60, 500, 400,
              [ok |-> TRUE, simplices |-> TriHalves(60, 60)], Tail(SuckDraws)),
      Shatter("sucking", 60, 60, 300, 200,
              [ok |-> TRUE, simplices |-> TriFan(60)], FanDraws),
      Shatter("shielded", 0, 0, 700, 400, Failed, ParticleDraws) }

\* The ships V09 shatters: (player_ship.x, player_ship.y) and the
\* triangulation of ship_debris_image (src/black_hole_runV09.py:481).
ShipWrecks ==
    { Shatter("ship", 40, 40, 500, 650,
              [ok |-> TRUE, simplices |-> TriHalves(40, 40)], ShipDraws),
      Shatter("ship", 40, 30, 650, 400,
              [ok |-> TRUE, simplices |-> TriBorder(40, 30)],
              DrawsInTurn(Tail(ShipDraws), Len(TriBorder(40, 30)))),
      Shatter("ship", 40, 40, 500, 650, Failed, ShipDraws) }

\* One call of a debris factory: what it was given, the triangulation it
\* got and the list it returned.
FactoryCall(factory, img_width, img_height, center_x, center_y, tri, out) ==
    [factory |-> factory, img_width |-> img_width, img_height |-> img_height,
     center_x |-> center_x, center_y |-> center_y, tri |-> tri, out |-> out]

----------------------------------------------------------------------------
(* ShipDestructionCinematic: state *)

VARIABLES
    state, state_timer, is_finished,
    position, ship_drift_velocity, ship_angular_velocity, ship_current_rotation_angle,
    debris, explosion_core, sparks, mini_explosions, electrical_arcs, smoke_clouds,
    mini_explosion_sounds, shake_1_sounds_played, shake_2_sounds_played,
    durations,     \* the configured state durations
    n_updates,     \* update() calls made so far
    idle_updates,  \* update() calls made after is_finished was set
    surface,       \* what the draw() call of the current frame rendered
    raised,        \* an exception left update()
    host,          \* the version of the game that runs
    game_state,    \* state_manager.current_state
    sucking_debris, exploding_debris, ship_debris,
    is_destroyed,  \* player_ship.is_destroyed
    slow_motion_factor, zoom_level,
    last_pass,     \* the pieces the last frame updated, before and after
    n_spawns,      \* asteroids shattered so far
    particle_effects,  \* the particle systems, each the list of its particles
    last_particles,    \* the particles the last frame updated, before and after
    generated,         \* the calls of the debris factories: input and result
    frame_pos,         \* the block of the run loop the host is at
    frame_calls,       \* the calls the host made on the sequencer this frame
    seen_updates       \* the update() calls that had returned at the last block

cinematic_config ==
    <<ship_drift_velocity, ship_angular_velocity, mini_explosion_sounds, durations>>

cinematic_vars ==
    <<state, state_timer, is_finished, position, ship_current_rotation_angle,
      debris, explosion_core, sparks, mini_explosions, electrical_arcs, smoke_clouds,
      shake_1_sounds_played, shake_2_sounds_played, cinematic_config,
      n_updates, idle_updates, surface, raised>>

frame_vars == <<frame_pos, frame_calls, seen_updates>>

host_vars ==
    <<host, game_state, sucking_debris, exploding_debris, ship_debris, is_destroyed,
      slow_motion_factor, zoom_level, last_pass, n_spawns, particle_effects,
      last_particles, frame_vars>>

\* run_game_update has returned and the frame has called nothing on the
\* sequencer: the host is at the draw block of the run loop
\* (src/black_hole_runV08.py:1536).
AtDrawBlock ==
    /\ frame_pos = "draw"
    /\ frame_calls = <<>>
    /\ seen_updates = 0

vars == <<cinematic_vars, host_vars, generated>>

\* Bounds of the exploration.
MaxUpdates == 1400
MaxIdleUpdates == 2

BlankSurface == [drawn |-> FALSE, layers |-> {}, flash_alpha |-> -1]

\* ShipDestructionCinematic.__init__ (lines 275-302), as the host constructs it
\* (src/black_hole_runV08.py:673-681).
InitCinematic(in) ==
    /\ state = "SHAKE_1"
    /\ state_timer = 0
    /\ is_finished = FALSE
    /\ position = Vec(Px(original_screen_width \div 2), Px(original_screen_height \div 2))
    /\ ship_drift_velocity = in.drift
    /\ ship_angular_velocity = in.ang
    /\ ship_current_rotation_angle = 0
    /\ debris = None
    /\ explosion_core = None
    /\ sparks = <<>>
    /\ mini_explosions = <<>>
    /\ electrical_arcs = <<>>
    /\ smoke_clouds = <<>>
    /\ mini_explosion_sounds = in.sounds
    /\ shake_1_sounds_played = 0
    /\ shake_2_sounds_played = 0
    /\ durations = in.durs
    /\ n_updates = 0
    /\ idle_updates = 0
    /\ surface = BlankSurface
    /\ raised = FALSE
    /\ host = "V08"
    /\ game_state = "CINEMATIC"
    /\ sucking_debris = <<>>
    /\ exploding_debris = <<>>
    /\ ship_debris = <<>>
    /\ is_destroyed = TRUE
    /\ slow_motion_factor = Scale
    /\ zoom_level = Scale
    /\ last_pass = <<>>
    /\ n_spawns = 0
    /\ particle_effects = <<>>
    /\ last_particles = <<>>
    /\ generated = <<>>
    /\ AtDrawBlock

Init == \E in \in CinematicInputs : InitCinematic(in)

----------------------------------------------------------------------------
(* ShipDestructionCinematic.update (lines 304-491) *)

\* Line 308
Timer1 == state_timer + 1

\* Lines 312-327: the effects age and the spent ones are removed.
Minis1 == UpdateAndReap(MiniExplosionUpdate, mini_explosions)
Arcs1 == UpdateAndReap(ElectricalArcUpdate, electrical_arcs)
Smoke1 == UpdateAndReap(SmokeCloudUpdate, smoke_clouds)

\* ArcDraws, spawning on every frame.
ArcDrawsEveryFrame(timer) == ArcSpawnDraws

\* Lines 334-343 (and 365-374, 409-418): arcs are spawned every third frame.
ArcDraws(timer) == IF timer % 3 = 0 THEN ArcSpawnDraws ELSE {<<>>}

\* BurstDue, with the cap at one burst.
BurstDueOnce(timer, played) == (timer = 5 \/ timer = 15) /\ played < 1

\* Lines 352-353 (397-398): a burst is due.
BurstDue(timer, played) == (timer = 5 \/ timer = 15) /\ played < 2

MiniDraws(timer, played) == IF BurstDue(timer, played) THEN MiniExplosionCounts ELSE {0}

\* Drift, turning the ship without moving it.
DriftTurningOnly ==
    /\ position' = position
    /\ ship_current_rotation_angle' = ship_current_rotation_angle + ship_angular_velocity

\* Lines 347-349 (382-384, 392-394, 426-428): the intact ship drifts and turns.
Drift ==
    /\ position' = Vec(position[1] + ship_drift_velocity[1],
                       position[2] + ship_drift_velocity[2])
    /\ ship_current_rotation_angle' = ship_current_rotation_angle + ship_angular_velocity

\* Advance, leaving out DELAY_1.
AdvanceSkipping(timer, duration, next) ==
    IF timer >= duration
    THEN state' = (IF next = "DELAY_1" THEN "SHAKE_2" ELSE next) /\ state_timer' = 0
    ELSE state' = state /\ state_timer' = timer

\* Advance, with the timer running on into the next state.
AdvanceKeepingTimer(timer, duration, next) ==
    IF timer >= duration
    THEN state' = next /\ state_timer' = timer
    ELSE state' = state /\ state_timer' = timer

\* Advance, one frame late.
AdvanceLate(timer, duration, next) ==
    IF timer > duration
    THEN state' = next /\ state_timer' = 0
    ELSE state' = state /\ state_timer' = timer

\* "if self.state_timer >= X_DURATION: self.state = next; self.state_timer = 0"
Advance(timer, duration, next) ==
    IF timer >= duration
    THEN state' = next /\ state_timer' = 0
    ELSE state' = state /\ state_timer' = timer

\* Every update() call that gets past line 305.
Running ==
    /\ ~raised
    /\ ~is_finished
    /\ n_updates < MaxUpdates
    /\ n_updates' = n_updates + 1
    /\ surface' = BlankSurface
    /\ UNCHANGED <<cinematic_config, idle_updates, host_vars>>

\* UpdateFinished, without the early return: the timer of line 308 runs on.
UpdateFinishedTicking ==
    /\ ~raised
    /\ is_finished
    /\ idle_updates < MaxIdleUpdates
    /\ n_updates' = n_updates + 1
    /\ idle_updates' = idle_updates + 1
    /\ surface' = BlankSurface
    /\ state_timer' = state_timer + 1
    /\ UNCHANGED <<state, is_finished, position, ship_current_rotation_angle,
                   debris, explosion_core, sparks, mini_explosions, electrical_arcs,
                   smoke_clouds, shake_1_sounds_played, shake_2_sounds_played,
                   cinematic_config, raised, host_vars, generated>>

\* Lines 305-306: a finished sequence ignores update().
UpdateFinished ==
    /\ ~raised
    /\ is_finished
    /\ idle_updates < MaxIdleUpdates
    /\ n_updates' = n_updates + 1
    /\ idle_updates' = idle_updates + 1
    /\ surface' = BlankSurface
    /\ UNCHANGED <<state, state_timer, is_finished, position, ship_current_rotation_angle,
                   debris, explosion_core, sparks, mini_explosions, electrical_arcs,
                   smoke_clouds, shake_1_sounds_played, shake_2_sounds_played,
                   cinematic_config, raised, host_vars, generated>>

\* Lines 346-379
UpdateShake1 ==
    /\ Running
    /\ UNCHANGED generated
    /\ state = "SHAKE_1"
    /\ Drift
    /\ \E g \in ArcDraws(Timer1), sh \in ArcDraws(Timer1),
          n \in MiniDraws(Timer1, shake_1_sounds_played) :
        /\ mini_explosions' = Minis1 \o [i \in 1..n |-> NewMiniExplosion]
        /\ electrical_arcs' = Arcs1 \o SpawnArcs(g) \o SpawnArcs(sh)
    /\ shake_1_sounds_played' =
          IF BurstDue(Timer1, shake_1_sounds_played) /\ mini_explosion_sounds
          THEN shake_1_sounds_played + 1 ELSE shake_1_sounds_played
    /\ smoke_clouds' = Smoke1
    /\ Advance(Timer1, durations.SHAKE_1, "DELAY_1")
    /\ UNCHANGED <<is_finished, debris, explosion_core, sparks, shake_2_sounds_played, raised>>

\* Lines 381-389
UpdateDelay1 ==
    /\ Running
    /\ UNCHANGED generated
    /\ state = "DELAY_1"
    /\ Drift
    /\ \E g \in ArcDraws(Timer1) : electrical_arcs' = Arcs1 \o SpawnArcs(g)
    /\ mini_explosions' = Minis1
    /\ smoke_clouds' = Smoke1
    /\ Advance(Timer1, durations.DELAY_1, "SHAKE_2")
    /\ UNCHANGED <<is_finished, debris, explosion_core, sparks,
                   shake_1_sounds_played, shake_2_sounds_played, raised>>

\* Lines 391-423
UpdateShake2 ==
    /\ Running
    /\ UNCHANGED generated
    /\ state = "SHAKE_2"
    /\ Drift
    /\ \E g \in ArcDraws(Timer1), sh \in ArcDraws(Timer1),
          n \in MiniDraws(Timer1, shake_2_sounds_played) :
        /\ mini_explosions' = Minis1 \o [i \in 1..n |-> NewMiniExplosion]
        /\ electrical_arcs' = Arcs1 \o SpawnArcs(g) \o SpawnArcs(sh)
    /\ shake_2_sounds_played' =
          IF BurstDue(Timer1, shake_2_sounds_played) /\ mini_explosion_sounds
          THEN shake_2_sounds_played + 1 ELSE shake_2_sounds_played
    /\ smoke_clouds' = Smoke1
    /\ Advance(Timer1, durations.SHAKE_2, "DELAY_2")
    /\ UNCHANGED <<is_finished, debris, explosion_core, sparks, shake_1_sounds_played, raised>>

\* Lines 425-433
UpdateDelay2 ==
    /\ Running
    /\ UNCHANGED generated
    /\ state = "DELAY_2"
    /\ Drift
    /\ \E g \in ArcDraws(Timer1) : electrical_arcs' = Arcs1 \o SpawnArcs(g)
    /\ mini_explosions' = Minis1
    /\ smoke_clouds' = Smoke1
    /\ Advance(Timer1, durations.DELAY_2, "INITIAL_FLASH")
    /\ UNCHANGED <<is_finished, debris, explosion_core, sparks,
                   shake_1_sounds_played, shake_2_sounds_played, raised>>

\* UpdateInitialFlash, with a factory that gives None when the triangulation
\* raises.
UpdateInitialFlashNoneOnFailure ==
    /\ Running
    /\ state = "INITIAL_FLASH"
    /\ \E g \in ArcDraws(Timer1) : electrical_arcs' = Arcs1 \o SpawnArcs(g)
    /\ mini_explosions' = Minis1
    /\ smoke_clouds' = Smoke1
    /\ Advance(Timer1, durations.INITIAL_FLASH, "FRACTURING")
    /\ IF Timer1 >= durations.INITIAL_FLASH
       THEN /\ \E tri \in Triangulations(ImgSize) :
                 /\ IF tri.ok /\ tri.simplices # <<>>
                    THEN \E draw \in DebrisDraws :
                           debris' = Some(CreateCinematicDebris(ImgSize, position, tri, draw))
                    ELSE debris' = IF tri.ok
                                   THEN Some(CreateCinematicDebris(ImgSize, position, tri,
                                                 CHOOSE d \in DebrisDraws : TRUE))
                                   ELSE None
                 /\ generated' = Append(generated,
                        FactoryCall("_create_cinematic_debris", ImgSize, ImgSize,
                                    position[1], position[2], tri, IF debris'.some THEN debris'.val ELSE <<>>))
            /\ explosion_core' = Some(NewExplosionCore(position))
       ELSE UNCHANGED <<debris, explosion_core, generated>>
    /\ UNCHANGED <<is_finished, position, ship_current_rotation_angle, sparks,
                   shake_1_sounds_played, shake_2_sounds_played, raised>>

\* Lines 435-445: the debris and the fireball are created on leaving the flash.
UpdateInitialFlash ==
    /\ Running
    /\ state = "INITIAL_FLASH"
    /\ \E g \in ArcDraws(Timer1) : electrical_arcs' = Arcs1 \o SpawnArcs(g)
    /\ mini_explosions' = Minis1
    /\ smoke_clouds' = Smoke1
    /\ Advance(Timer1, durations.INITIAL_FLASH, "FRACTURING")
    /\ IF Timer1 >= durations.INITIAL_FLASH
       THEN /\ \E tri \in Triangulations(ImgSize) :
                 /\ IF tri.ok /\ tri.simplices # <<>>
                    THEN \E draw \in DebrisDraws :
                           debris' = Some(CreateCinematicDebris(ImgSize, position, tri, draw))
                    ELSE debris' = Some(CreateCinematicDebris(ImgSize, position, tri,
                                                              CHOOSE d \in DebrisDraws : TRUE))
                 /\ generated' = Append(generated,
                        FactoryCall("_create_cinematic_debris", ImgSize, ImgSize,
                                    position[1], position[2], tri, debris'.val))
            /\ explosion_core' = Some(NewExplosionCore(position))
       ELSE UNCHANGED <<debris, explosion_core, generated>>
    /\ UNCHANGED <<is_finished, position, ship_current_rotation_angle, sparks,
                   shake_1_sounds_played, shake_2_sounds_played, raised>>

\* Lines 447-462.  Iterating self.debris raises TypeError while it is None.
UpdateFracturing ==
    /\ Running
    /\ UNCHANGED generated
    /\ state = "FRACTURING"
    /\ \E g \in ArcDraws(Timer1) : electrical_arcs' = Arcs1 \o SpawnArcs(g)
    /\ mini_explosions' = Minis1
    /\ IF ~debris.some
       THEN /\ raised' = TRUE
            /\ state_timer' = Timer1
            /\ smoke_clouds' = Smoke1
            /\ UNCHANGED <<state, debris, sparks>>
       ELSE /\ raised' = FALSE
            /\ debris' = Some(MapSeq(FractureNudge, debris.val))
            /\ Advance(Timer1, durations.FRACTURING, "EXPANDING_CORE")
            /\ IF Timer1 >= durations.FRACTURING
               THEN /\ sparks' = sparks \o [i \in 1..SPARK_COUNT |-> NewSpark(position)]
                    /\ smoke_clouds' =
                          Smoke1 \o [i \in 1..SMOKE_CLOUD_COUNT |-> NewSmokeCloud(position)]
               ELSE /\ sparks' = sparks
                    /\ smoke_clouds' = Smoke1
    /\ UNCHANGED <<is_finished, position, ship_current_rotation_angle, explosion_core,
                   shake_1_sounds_played, shake_2_sounds_played>>

NoDrag(piece) == CinematicDebrisUpdate(piece, 1, 1)

WithDrag(piece) == CinematicDebrisUpdate(piece, DragNum, DragDen)

\* Lines 464-475.  self.explosion_core.update raises AttributeError on None.
UpdateExpandingCore ==
    /\ Running
    /\ UNCHANGED generated
    /\ state = "EXPANDING_CORE"
    /\ \E g \in ArcDraws(Timer1) : electrical_arcs' = Arcs1 \o SpawnArcs(g)
    /\ mini_explosions' = Minis1
    /\ smoke_clouds' = Smoke1
    /\ IF ~explosion_core.some
       THEN /\ raised' = TRUE
            /\ state_timer' = Timer1
            /\ UNCHANGED <<state, debris, sparks, explosion_core>>
       ELSE /\ explosion_core' =
                  Some(ExplosionCoreUpdate(explosion_core.val, Timer1,
                                           durations.EXPANDING_CORE))
            /\ sparks' = MapSeq(SparkUpdate, sparks)
            /\ IF ~debris.some
               THEN /\ raised' = TRUE
                    /\ state_timer' = Timer1
                    /\ UNCHANGED <<state, debris>>
               ELSE /\ raised' = FALSE
                    /\ debris' = Some(MapSeq(NoDrag, debris.val))
                    /\ Advance(Timer1, durations.EXPANDING_CORE, "COASTING")
    /\ UNCHANGED <<is_finished, position, ship_current_rotation_angle,
                   shake_1_sounds_played, shake_2_sounds_played>>

\* Line 482, after the piece has moved
OnScreen(piece) ==
    CollideRect(ScreenRect(original_screen_width, original_screen_height), PieceRect(piece))

\* AllDebrisOffScreen, asking for a piece to have left.
AllDebrisOffScreenSome(moved) ==
    moved # <<>> /\ \A i \in 1..Len(moved) : ~OnScreen(moved[i])

\* AllDebrisOffScreen, looking at the first piece only.
AllDebrisOffScreenFirst(moved) == moved = <<>> \/ ~OnScreen(moved[1])

\* Lines 478-483: the flag starts True and every piece on screen clears it.
AllDebrisOffScreen(moved) == \A i \in 1..Len(moved) : ~OnScreen(moved[i])

\* UpdateCoasting, dropping the pieces that have left the screen.
UpdateCoastingReaping ==
    /\ Running
    /\ UNCHANGED generated
    /\ state = "COASTING"
    /\ \E g \in ArcDraws(Timer1) : electrical_arcs' = Arcs1 \o SpawnArcs(g)
    /\ mini_explosions' = Minis1
    /\ smoke_clouds' = Smoke1
    /\ state_timer' = Timer1
    /\ IF ~debris.some
       THEN /\ raised' = TRUE
            /\ UNCHANGED <<debris, sparks, is_finished>>
       ELSE LET moved == MapSeq(WithDrag, debris.val)
            IN /\ raised' = FALSE
               /\ debris' = Some(SelectSeq(moved, OnScreen))
               /\ sparks' = MapSeq(SparkUpdate, sparks)
               /\ is_finished' = AllDebrisOffScreen(moved)
    /\ UNCHANGED <<state, position, ship_current_rotation_angle, explosion_core,
                   shake_1_sounds_played, shake_2_sounds_played>>

\* Lines 477-491
UpdateCoasting ==
    /\ Running
    /\ UNCHANGED generated
    /\ state = "COASTING"
    /\ \E g \in ArcDraws(Timer1) : electrical_arcs' = Arcs1 \o SpawnArcs(g)
    /\ mini_explosions' = Minis1
    /\ smoke_clouds' = Smoke1
    /\ state_timer' = Timer1
    /\ IF ~debris.some
       THEN /\ raised' = TRUE
            /\ UNCHANGED <<debris, sparks, is_finished>>
       ELSE LET moved == MapSeq(WithDrag, debris.val)
            IN /\ raised' = FALSE
               /\ debris' = Some(moved)
               /\ sparks' = MapSeq(SparkUpdate, sparks)
               /\ is_finished' = AllDebrisOffScreen(moved)
    /\ UNCHANGED <<state, position, ship_current_rotation_angle, explosion_core,
                   shake_1_sounds_played, shake_2_sounds_played>>

\* update()
Update ==
    \/ UpdateFinished
    \/ UpdateShake1
    \/ UpdateDelay1
    \/ UpdateShake2
    \/ UpdateDelay2
    \/ UpdateInitialFlash
    \/ UpdateFracturing
    \/ UpdateExpandingCore
    \/ UpdateCoasting

----------------------------------------------------------------------------
(* ShipDestructionCinematic.draw (lines 493-538) and is_done (540-541) *)

is_done == is_finished

AnyIn(lst, P(_)) == \E i \in 1..Len(lst) : P(lst[i])

Visible(x) == x.alpha > 0

Alive(x) == x.lifetime > 0

RECURSIVE ArcVisible(_)
ArcVisible(arc) ==
    \/ arc.alpha > 0
    \/ \E i \in 1..Len(arc.child_arcs) : ArcVisible(arc.child_arcs[i])

Layer(name, cond) == IF cond THEN {name} ELSE {}

\* Line 516-519: the flash overlay's alpha
FlashAlpha(timer, flash_duration) ==
    TruncDiv(ClampAlpha(flash_duration - timer, flash_duration), Scale)

\* ShipDrawnStates, with the ship still drawn while it breaks up.
ShipDrawnStatesWide ==
    {"SHAKE_1", "DELAY_1", "SHAKE_2", "DELAY_2", "INITIAL_FLASH", "FRACTURING"}

\* Line 503: the states in which draw() renders the intact ship.
ShipDrawnStates == {"SHAKE_1", "DELAY_1", "SHAKE_2", "DELAY_2", "INITIAL_FLASH"}

\* The branches of draw() in source order; the second one tests a state the
\* first has already taken.
DrawResult ==
    IF is_finished THEN [drawn |-> TRUE, layers |-> {}, flash_alpha |-> -1]
    ELSE IF state \in ShipDrawnStates
    THEN [drawn |-> TRUE,
          layers |-> {"ship"}
                     \cup Layer("mini_explosions", AnyIn(mini_explosions, Visible))
                     \cup Layer("electrical_arcs", AnyIn(electrical_arcs, ArcVisible)),
          flash_alpha |-> -1]
    ELSE IF state = "INITIAL_FLASH"
    THEN [drawn |-> TRUE, layers |-> {"flash"},
          flash_alpha |-> FlashAlpha(state_timer, durations.INITIAL_FLASH)]
    ELSE IF state = "FRACTURING"
    THEN [drawn |-> TRUE,
          layers |-> Layer("debris", debris.some /\ debris.val # <<>>),
          flash_alpha |-> -1]
    ELSE IF state \in {"EXPANDING_CORE", "COASTING"}
    THEN [drawn |-> TRUE,
          layers |-> Layer("explosion_core",
                           explosion_core.some /\ Visible(explosion_core.val))
                     \cup Layer("debris", debris.some /\ debris.val # <<>>)
                     \cup Layer("sparks", AnyIn(sparks, Alive))
                     \cup Layer("mini_explosions", AnyIn(mini_explosions, Visible))
                     \cup Layer("smoke_clouds", AnyIn(smoke_clouds, Visible)),
          flash_alpha |-> -1]
    ELSE [drawn |-> TRUE, layers |-> {}, flash_alpha |-> -1]

Draw ==
    /\ ~raised
    /\ ~surface.drawn
    /\ surface' = DrawResult
    /\ UNCHANGED <<state, state_timer, is_finished, position, ship_current_rotation_angle,
                   debris, explosion_core, sparks, mini_explosions, electrical_arcs,
                   smoke_clouds, shake_1_sounds_played, shake_2_sounds_played,
                   cinematic_config, n_updates, idle_updates, raised, host_vars,
                   generated>>

Next == Update \/ Draw

Spec == Init /\ [][Next]_vars

----------------------------------------------------------------------------
(* The run loop of the host driving the sequencer
   (src/black_hole_runV08.py:1510-1547).  The sequencer is constructed inside
   run_game_update, which the update block of the loop calls through
   state_manager.update(): the first block the loop runs on the new sequencer
   is the draw block of that frame. *)

\* Line 1530: self.cinematic_player.update()
HostCallsUpdate ==
    /\ frame_pos = "update"
    /\ game_state = "CINEMATIC"
    /\ seen_updates = n_updates
    /\ Update

\* Lines 1531-1532, when update() has returned: is_done() and the switch to
\* GAME_OVER; the loop goes on to the draw block.
HostChecksDone ==
    /\ frame_pos = "update"
    /\ game_state = "CINEMATIC"
    /\ seen_updates # n_updates
    /\ seen_updates' = n_updates
    /\ frame_calls' = <<"update">>
    /\ game_state' = IF is_done THEN "GAME_OVER" ELSE game_state
    /\ frame_pos' = "draw"
    /\ UNCHANGED <<host, sucking_debris, exploding_debris, ship_debris, is_destroyed,
                   slow_motion_factor, zoom_level, last_pass, n_spawns,
                   particle_effects, last_particles, generated, cinematic_vars>>

\* Line 1538: self.cinematic_player.draw(self.game_surface)
HostCallsDraw ==
    /\ frame_pos = "draw"
    /\ game_state = "CINEMATIC"
    /\ Draw

\* Lines 1542-1547, when draw() has returned: the frame is shown and the loop
\* starts over.
HostEndsFrame ==
    /\ frame_pos = "draw"
    /\ game_state = "CINEMATIC"
    /\ surface.drawn
    /\ frame_calls' = Append(frame_calls, "draw")
    /\ frame_pos' = "update"
    /\ UNCHANGED <<host, game_state, sucking_debris, exploding_debris, ship_debris,
                   is_destroyed, slow_motion_factor, zoom_level, last_pass, n_spawns,
                   particle_effects, last_particles, generated, seen_updates,
                   cinematic_vars>>

\* Lines 1533-1534 in another state than CINEMATIC: state_manager.update(),
\* which has no branch for GAME_OVER (src/game_state_module.py).
HostUpdatesOther ==
    /\ frame_pos = "update"
    /\ game_state # "CINEMATIC"
    /\ frame_calls' = <<>>
    /\ frame_pos' = "draw"
    /\ UNCHANGED <<host, game_state, sucking_debris, exploding_debris, ship_debris,
                   is_destroyed, slow_motion_factor, zoom_level, last_pass, n_spawns,
                   particle_effects, last_particles, generated, seen_updates,
                   cinematic_vars>>

\* Lines 1539-1547 in another state than CINEMATIC: state_manager.draw().
HostDrawsOther ==
    /\ frame_pos = "draw"
    /\ game_state # "CINEMATIC"
    /\ frame_pos' = "update"
    /\ UNCHANGED <<host, game_state, sucking_debris, exploding_debris, ship_debris,
                   is_destroyed, slow_motion_factor, zoom_level, last_pass, n_spawns,
                   particle_effects, last_particles, generated, frame_calls,
                   seen_updates, cinematic_vars>>

HostNext ==
    \/ HostCallsUpdate
    \/ HostChecksDone
    \/ HostCallsDraw
    \/ HostEndsFrame
    \/ HostUpdatesOther
    \/ HostDrawsOther

HostSpec == Init /\ [][HostNext]_vars

----------------------------------------------------------------------------
(* The hosts' frames *)

\* The pieces a frame updated, before and after their update() call, in the
\* order of the loops; the dead ones are still in it.
Pass(before, after) == [i \in 1..Len(before) |-> [before |-> before[i], after |-> after[i]]]

\* The lists of a list, one after the other.
RECURSIVE Flatten(_)
Flatten(lists) ==
    IF lists = <<>> THEN <<>> ELSE Head(lists) \o Flatten(Tail(lists))

StillAlive(p) == p.lifetime > 0

\* Reap, removing a dead piece only from the head of the list.
ReapHead(lst) == IF lst # <<>> /\ ~StillAlive(Head(lst)) THEN Tail(lst) ELSE lst

\* "for debris in list[:]: debris.update(); if debris.lifetime <= 0:
\* list.remove(debris)"
Reap(lst) == SelectSeq(lst, StillAlive)

HostVarsIdle ==
    /\ sucking_debris = <<>>
    /\ exploding_debris = <<>>
    /\ ship_debris = <<>>
    /\ is_destroyed = FALSE
    /\ slow_motion_factor = Scale
    /\ zoom_level = Scale
    /\ last_pass = <<>>
    /\ n_spawns = 0
    /\ particle_effects = <<>>
    /\ last_particles = <<>>
    /\ generated = <<>>
    /\ AtDrawBlock

\* The cinematic is not constructed while the hosts play.
NoCinematic ==
    /\ state = "SHAKE_1"
    /\ state_timer = 0
    /\ is_finished = FALSE
    /\ position = Vec(0, 0)
    /\ ship_drift_velocity = Vec(0, 0)
    /\ ship_angular_velocity = 0
    /\ ship_current_rotation_angle = 0
    /\ debris = None
    /\ explosion_core = None
    /\ sparks = <<>>
    /\ mini_explosions = <<>>
    /\ electrical_arcs = <<>>
    /\ smoke_clouds = <<>>
    /\ mini_explosion_sounds = FALSE
    /\ shake_1_sounds_played = 0
    /\ shake_2_sounds_played = 0
    /\ durations = ConfiguredDurations
    /\ n_updates = 0
    /\ idle_updates = 0
    /\ surface = BlankSurface
    /\ raised = FALSE

\* BlackHoleRun.__init__ and reset_game_variables of either host, in the GAME
\* state.
DebrisInit ==
    /\ host \in {"V08", "V09"}
    /\ game_state = "GAME"
    /\ HostVarsIdle
    /\ NoCinematic

\* run_game_update of V08 (src/black_hole_runV08.py:600-684): the collisions
\* of line 625 come before the debris loops of lines 642-650.
RunGameUpdateV08 ==
    /\ host = "V08"
    /\ game_state = "GAME"
    /\ \E hit \in {NoHit} \cup {c \in Collisions : n_spawns < MaxSpawns} :
        LET effects == particle_effects \o
                (IF hit.kind = "shielded"
                 THEN <<NewSuckingParticleSystem(Vec(hit.center_x, hit.center_y),
                                                 hit.draws)>>
                 ELSE <<>>)
            swirled == [e \in 1..Len(effects) |->
                          [i \in 1..Len(effects[e]) |->
                              SuckingParticleUpdate(effects[e][i],
                                  Px(original_screen_width \div 2),
                                  Px(original_screen_height \div 2))]]
            sucking == sucking_debris \o
                (IF hit.kind = "sucking"
                 THEN CreateDebrisBase("AsteroidDebrisPiece", hit) ELSE <<>>)
            exploding == exploding_debris \o
                (IF hit.kind = "exploding"
                 THEN CreateDebrisBase("ExplodingDebrisPiece", hit) ELSE <<>>)
            sucked == [i \in 1..Len(sucking) |->
                         AsteroidDebrisPieceUpdate(sucking[i], Scale,
                             Px(original_screen_width \div 2),
                             Px(original_screen_height \div 2))]
            exploded == [i \in 1..Len(exploding) |->
                           ExplodingDebrisPieceUpdate(exploding[i], Scale)]
        IN /\ particle_effects' =
                  [e \in 1..Len(effects) |->
                      RemoveGone(swirled[e], Px(original_screen_width \div 2),
                                 Px(original_screen_height \div 2))]
           /\ last_particles' = Flatten([e \in 1..Len(effects) |->
                                            Pass(effects[e], swirled[e])])
           /\ sucking_debris' = Reap(sucked)
           /\ exploding_debris' = Reap(exploded)
           /\ last_pass' = Pass(sucking, sucked) \o Pass(exploding, exploded)
           /\ n_spawns' = IF hit.kind = "none" THEN n_spawns ELSE n_spawns + 1
           /\ generated' =
                 IF hit.kind = "sucking"
                 THEN Append(generated,
                         FactoryCall("create_asteroid_debris", hit.img_width,
                                     hit.img_height, hit.center_x, hit.center_y, hit.tri,
                                     CreateDebrisBase("AsteroidDebrisPiece", hit)))
                 ELSE IF hit.kind = "exploding"
                 THEN Append(generated,
                         FactoryCall("create_exploding_debris", hit.img_width,
                                     hit.img_height, hit.center_x, hit.center_y, hit.tri,
                                     CreateDebrisBase("ExplodingDebrisPiece", hit)))
                 ELSE generated
    /\ UNCHANGED <<host, game_state, ship_debris, is_destroyed, slow_motion_factor,
                   zoom_level, frame_vars, cinematic_vars>>

\* run_game_update of V09 (src/black_hole_runV09.py:470-489): the ship debris
\* loop, the destruction condition and the survival timer; structure_gone is
\* player_ship.current_structure <= 0 and timer_out is survival_timer <= 0,
\* which is tested last and so has the last word on the state.
RunGameUpdateV09 ==
    /\ host = "V09"
    /\ game_state = "GAME"
    /\ \E structure_gone \in BOOLEAN, timer_out \in BOOLEAN, wreck \in ShipWrecks :
        LET updated == IF is_destroyed
                       THEN [i \in 1..Len(ship_debris) |->
                                DebrisPieceUpdate(ship_debris[i], Scale)]
                       ELSE ship_debris
        IN /\ last_pass' = IF is_destroyed THEN Pass(ship_debris, updated) ELSE <<>>
           /\ IF structure_gone /\ ~is_destroyed
              THEN /\ is_destroyed' = TRUE
                   /\ ship_debris' = CreateShipDebris(wreck)
                   /\ generated' = Append(generated,
                          FactoryCall("create_ship_debris", wreck.img_width,
                                      wreck.img_height, wreck.center_x, wreck.center_y,
                                      wreck.tri, CreateShipDebris(wreck)))
                   /\ game_state' = IF timer_out THEN "ESCAPING" ELSE "DESTRUCTION"
                   /\ slow_motion_factor' = Scale \div 10
              ELSE /\ ship_debris' = IF is_destroyed THEN Reap(updated) ELSE ship_debris
                   /\ game_state' = IF timer_out THEN "ESCAPING" ELSE game_state
                   /\ UNCHANGED <<is_destroyed, slow_motion_factor, generated>>
    /\ UNCHANGED <<host, sucking_debris, exploding_debris, zoom_level, n_spawns,
                   particle_effects, last_particles, frame_vars, cinematic_vars>>

\* RunDestructionUpdate, with the slow-motion factor easing to 0 instead of 1.
RunDestructionUpdateSlowingDown ==
    /\ host = "V09"
    /\ game_state = "DESTRUCTION"
    /\ LET updated == [i \in 1..Len(ship_debris) |->
                          DebrisPieceUpdate(ship_debris[i], slow_motion_factor)]
       IN /\ ship_debris' = Reap(updated)
          /\ last_pass' = Pass(ship_debris, updated)
          /\ game_state' = IF Reap(updated) = <<>> THEN "GAME_OVER" ELSE game_state
    /\ zoom_level' = zoom_level + TruncDiv((3 * Scale - zoom_level) * 5, 100)
    /\ slow_motion_factor' =
          slow_motion_factor - TruncDiv(slow_motion_factor * 5 + 99, 100)
    /\ UNCHANGED <<host, sucking_debris, exploding_debris, is_destroyed, n_spawns,
                   particle_effects, last_particles, generated, frame_vars,
                   cinematic_vars>>

\* run_destruction_update (src/black_hole_runV09.py:396-409)
RunDestructionUpdate ==
    /\ host = "V09"
    /\ game_state = "DESTRUCTION"
    /\ LET updated == [i \in 1..Len(ship_debris) |->
                          DebrisPieceUpdate(ship_debris[i], slow_motion_factor)]
       IN /\ ship_debris' = Reap(updated)
          /\ last_pass' = Pass(ship_debris, updated)
          /\ game_state' = IF Reap(updated) = <<>> THEN "GAME_OVER" ELSE game_state
    /\ zoom_level' = zoom_level + TruncDiv((3 * Scale - zoom_level) * 5, 100)
    /\ slow_motion_factor' =
          slow_motion_factor + TruncDiv((Scale - slow_motion_factor) * 5, 100)
    /\ UNCHANGED <<host, sucking_debris, exploding_debris, is_destroyed, n_spawns,
                   particle_effects, last_particles, generated, frame_vars,
                   cinematic_vars>>

DebrisNext == RunGameUpdateV08 \/ RunGameUpdateV09 \/ RunDestructionUpdate

\* run() of V09 (src/black_hole_runV09.py:1083-1086) calls
\* run_destruction_update in every frame that finds the state DESTRUCTION.
DestructionSpec ==
    DebrisInit /\ [][DebrisNext]_vars /\ WF_vars(RunDestructionUpdate)

DebrisSpec == DebrisInit /\ [][DebrisNext]_vars

----------------------------------------------------------------------------
(* Debris and particles in flight: V08 with a collapsing piece that has
   floated to any place of the grid, a piece of an exploded asteroid and a
   lone particle, and no further collision. *)

\* k update() calls on a piece, and on a particle, that stand alone.
RECURSIVE AsteroidTicked(_, _)
AsteroidTicked(p, k) ==
    IF k = 0 \/ p.lifetime <= 0 THEN p
    ELSE AsteroidTicked(AsteroidDebrisPieceUpdate(p, Scale,
                            Px(original_screen_width \div 2),
                            Px(original_screen_height \div 2)), k - 1)

RECURSIVE ParticleTicked(_, _)
ParticleTicked(p, k) ==
    IF k = 0 \/ p.lifespan <= 0 THEN p
    ELSE ParticleTicked(SuckingParticleUpdate(p,
                            Px(original_screen_width \div 2),
                            Px(original_screen_height \div 2)), k - 1)

\* Where the collapsing piece and the particle are when they are sucked in:
\* on and off the screen, at the centre and inside the event horizon.
FlightXs == {-200, 0, 250, 470, 500, 600, 750, 1000, 1200}
FlightYs == {0, 200, 400, 440, 800}

\* The piece of SuckDraws[i] that floated 60 updates with velocity (0.5, 0)
\* and is sucked in at (x, y).
AttractingPieceAt(x, y, i) ==
    AsteroidTicked(
        NewAsteroidDebrisPiece([w |-> 20, h |-> 20],
                               Px(x) - 60 * (Scale \div 2), Px(y),
                               Vec(Scale \div 2, 0), SuckDraws[i].rot,
                               [SuckDraws[i] EXCEPT !.lifetime = MIN_DEBRIS_LIFETIME_SUCK]),
        60)

\* The particle of ParticleDraws[i] with velocity (-1, 0) that is sucked in
\* at (x, y) after its 30 updates.
SuckedParticleAt(x, y, i) ==
    ParticleTicked(
        NewSuckingParticle(Vec(Px(x) + 30 * Scale, Px(y)),
                           [ParticleDraws[i] EXCEPT !.vx = -Scale, !.vy = 0]),
        30)

FlightInit ==
    /\ host = "V08"
    /\ game_state = "GAME"
    /\ \E x \in FlightXs, y \in FlightYs, i \in 1..Len(SuckDraws) :
          /\ sucking_debris = <<AttractingPieceAt(x, y, i)>>
          /\ exploding_debris =
                 <<NewExplodingDebrisPiece([w |-> 20, h |-> 20],
                                           Px(x), Px(y), Vec(Px(i), -Px(2)),
                                           ExplodeDraws[i].rot, ExplodeDraws[i])>>
          /\ particle_effects = << <<SuckedParticleAt(x, y, i)>> >>
    /\ ship_debris = <<>>
    /\ is_destroyed = FALSE
    /\ slow_motion_factor = Scale
    /\ zoom_level = Scale
    /\ last_pass = <<>>
    /\ last_particles = <<>>
    /\ n_spawns = MaxSpawns
    /\ generated = <<>>
    /\ AtDrawBlock
    /\ NoCinematic

FlightNext == RunGameUpdateV08

FlightSpec == FlightInit /\ [][FlightNext]_vars

----------------------------------------------------------------------------
(* A collapsing piece and a particle that are sucked in at the same place
   with the same swirl_strength. *)

\* The particle of ParticleDraws[i], with the swirl_strength of the piece
\* of SuckDraws[i], that is sucked in at (x, y) after its 30 updates.
TwinParticleAt(x, y, i) ==
    ParticleTicked(
        NewSuckingParticle(Vec(Px(x) + 30 * Scale, Px(y)),
                           [ParticleDraws[i] EXCEPT !.vx = -Scale, !.vy = 0,
                                                    !.swirl = SuckDraws[i].swirl]),
        30)

TwinInit ==
    /\ host = "V08"
    /\ game_state = "GAME"
    /\ \E x \in FlightXs, y \in FlightYs, i \in 1..Len(SuckDraws) :
          /\ sucking_debris = <<AttractingPieceAt(x, y, i)>>
          /\ particle_effects = << <<TwinParticleAt(x, y, i)>> >>
    /\ exploding_debris = <<>>
    /\ ship_debris = <<>>
    /\ is_destroyed = FALSE
    /\ slow_motion_factor = Scale
    /\ zoom_level = Scale
    /\ last_pass = <<>>
    /\ last_particles = <<>>
    /\ n_spawns = MaxSpawns
    /\ generated = <<>>
    /\ AtDrawBlock
    /\ NoCinematic

TwinNext == RunGameUpdateV08

TwinSpec == TwinInit /\ [][TwinNext]_vars

----------------------------------------------------------------------------
(* An exploding piece on its own, with every lifetime that
   random.randint(MIN_DEBRIS_LIFETIME_EXPLODE, MAX_DEBRIS_LIFETIME_EXPLODE)
   can return (src/asteroid_destruction_module.py:116). *)

ExplodeLifetimes == MIN_DEBRIS_LIFETIME_EXPLODE..MAX_DEBRIS_LIFETIME_EXPLODE

FadeInit ==
    /\ host = "V08"
    /\ game_state = "GAME"
    /\ sucking_debris = <<>>
    /\ \E lifetime \in ExplodeLifetimes :
          exploding_debris =
              <<NewExplodingDebrisPiece([w |-> 20, h |-> 20], Px(200), Px(150),
                                        Vec(Px(2), -Px(2)), ExplodeDraws[1].rot,
                                        [ExplodeDraws[1] EXCEPT !.lifetime = lifetime])>>
    /\ particle_effects = <<>>
    /\ ship_debris = <<>>
    /\ is_destroyed = FALSE
    /\ slow_motion_factor = Scale
    /\ zoom_level = Scale
    /\ last_pass = <<>>
    /\ last_particles = <<>>
    /\ n_spawns = MaxSpawns
    /\ generated = <<>>
    /\ AtDrawBlock
    /\ NoCinematic

FadeNext == RunGameUpdateV08

FadeSpec == FadeInit /\ [][FadeNext]_vars

----------------------------------------------------------------------------
(* The debris factories on their own: each call of a factory is recorded with
   what it was given and what it returned. *)

\* Calls of the factories in one exploration.
MaxCalls == 3

\* Where the ship is when the cinematic breaks it up.
WreckPositions == { Vec(Px(120), Px(730)) }

FactoryInit ==
    /\ host \in {"V08", "V09"}
    /\ game_state = "GAME"
    /\ HostVarsIdle
    /\ NoCinematic

\* create_asteroid_debris and create_exploding_debris
\* (src/asteroid_destruction_module.py:152-181), both _create_debris_base.
CallCreateAsteroidDebris ==
    /\ Len(generated) < MaxCalls
    /\ \E hit \in {c \in Collisions : c.kind = "sucking"} :
          generated' = Append(generated,
              FactoryCall("create_asteroid_debris", hit.img_width, hit.img_height,
                          hit.center_x, hit.center_y, hit.tri,
                          CreateDebrisBase("AsteroidDebrisPiece", hit)))
    /\ UNCHANGED <<cinematic_vars, host_vars>>

CallCreateExplodingDebris ==
    /\ Len(generated) < MaxCalls
    /\ \E hit \in {c \in Collisions : c.kind = "exploding"} :
          generated' = Append(generated,
              FactoryCall("create_exploding_debris", hit.img_width, hit.img_height,
                          hit.center_x, hit.center_y, hit.tri,
                          CreateDebrisBase("ExplodingDebrisPiece", hit)))
    /\ UNCHANGED <<cinematic_vars, host_vars>>

\* create_ship_debris (src/backup003/ship_destruction_module.py:52-141)
CallCreateShipDebris ==
    /\ Len(generated) < MaxCalls
    /\ \E wreck \in ShipWrecks :
          generated' = Append(generated,
              FactoryCall("create_ship_debris", wreck.img_width, wreck.img_height,
                          wreck.center_x, wreck.center_y, wreck.tri,
                          CreateShipDebris(wreck)))
    /\ UNCHANGED <<cinematic_vars, host_vars>>

\* _create_cinematic_debris (lines 544-619)
CallCreateCinematicDebris ==
    /\ Len(generated) < MaxCalls
    /\ \E tri \in Triangulations(ImgSize), center_pos \in WreckPositions,
          draw \in DebrisDraws :
          generated' = Append(generated,
              FactoryCall("_create_cinematic_debris", ImgSize, ImgSize,
                          center_pos[1], center_pos[2], tri,
                          CreateCinematicDebris(ImgSize, center_pos, tri, draw)))
    /\ UNCHANGED <<cinematic_vars, host_vars>>

FactoryNext ==
    \/ CallCreateAsteroidDebris
    \/ CallCreateExplodingDebris
    \/ CallCreateShipDebris
    \/ CallCreateCinematicDebris

FactorySpec == FactoryInit /\ [][FactoryNext]_vars

----------------------------------------------------------------------------
(* ElectricalArc on its own: arcs are constructed with every outcome of the
   random.random() < BRANCH_CHANCE tests of their segments. *)

\* Arcs constructed in one exploration.
MaxArcs == 3

\* The branch outcomes of an arc, of its children and of their children.
ArcShapes ==
    { NoBranch, AllBranch, DeepBranch, FullBranch,
      [NoBranch EXCEPT ![5] = << [AllBranch EXCEPT ![2] = <<FullBranch>>] >>],
      [FullBranch EXCEPT ![1] = <<>>, ![4] = <<NoBranch>>] }

ArcInit ==
    /\ host = "V08"
    /\ game_state = "CINEMATIC"
    /\ HostVarsIdle
    /\ NoCinematic

\* ElectricalArc(start_pos, end_pos, ARC_JITTER, ARC_LENGTH, 0) (line 343)
ConstructArc ==
    /\ Len(electrical_arcs) < MaxArcs
    /\ \E shape \in ArcShapes :
          electrical_arcs' =
              Append(electrical_arcs,
                     NewElectricalArc(Px(ARC_JITTER), Px(ARC_LENGTH), 0, shape))
    /\ UNCHANGED <<state, state_timer, is_finished, position, ship_current_rotation_angle,
                   debris, explosion_core, sparks, mini_explosions, smoke_clouds,
                   shake_1_sounds_played, shake_2_sounds_played, cinematic_config,
                   n_updates, idle_updates, surface, raised, host_vars, generated>>

ArcNext == ConstructArc

ArcSpec == ArcInit /\ [][ArcNext]_vars


----------------------------------------------------------------------------
(* Properties of the sequencer *)

StateIndex(s) == CHOOSE i \in 1..Len(StateOrder) : StateOrder[i] = s

\* The position in SHAKE_1 .. COASTING, finished
PhaseIndex == IF is_finished THEN Len(StateOrder) + 1 ELSE StateIndex(state)

EmptyDebris == debris.some /\ debris.val = <<>>

PreFractureStates == {"SHAKE_1", "DELAY_1", "SHAKE_2", "DELAY_2", "INITIAL_FLASH"}

\* C1: every change of state goes to the immediate successor in
\* SHAKE_1, DELAY_1, SHAKE_2, DELAY_2, INITIAL_FLASH, FRACTURING,
\* EXPANDING_CORE, COASTING, finished: nothing is skipped or re-entered.
C1_StrictOrder == [][PhaseIndex' = PhaseIndex \/ PhaseIndex' = PhaseIndex + 1]_vars

\* A sequence with debris that has run through all the states.
C1_Witness == is_finished /\ debris.some /\ debris.val # <<>> /\ durations = ConfiguredDurations

\* No piece of debris can move any more, one is still on screen, and the
\* sequence is not finished: update() can never set is_finished from here.
Stalled ==
    /\ state = "COASTING"
    /\ ~is_finished
    /\ debris.some
    /\ \A i \in 1..Len(debris.val) : debris.val[i].velocity = Vec(0, 0)
    /\ \E i \in 1..Len(debris.val) : OnScreen(debris.val[i])

\* C2: with the configured durations the COAST state cannot last forever:
\* the sequence never gets into a state from which is_done() stays false.
C2_CoastTerminates == durations = ConfiguredDurations => ~Stalled

\* C3: with an empty debris list no update raises, and the first update in
\* COASTING finishes the sequence.
C3_EmptyDebrisFinishes ==
    EmptyDebris =>
        /\ ~raised
        /\ (state = "COASTING" /\ state_timer >= 1) => (is_finished /\ state_timer = 1)

C3_Witness == EmptyDebris /\ state = "COASTING" /\ is_finished /\ n_updates > 0

\* C4 as stated: with unit durations and no debris, is_done() first is true
\* after exactly 9 updates.
C4_NineUpdates ==
    (durations = UnitDurations /\ (debris.some => debris.val = <<>>))
        => (is_done <=> n_updates >= 9)

\* C4 amended: with unit durations and no debris, is_done() is false after
\* each of the first 7 updates and true after the 8th.
C4_EightUpdates ==
    (durations = UnitDurations /\ (debris.some => debris.val = <<>>))
        => (is_done <=> n_updates >= 8)

C4_Witness == durations = UnitDurations /\ EmptyDebris /\ is_done /\ n_updates = 8

sequencer_fields ==
    <<state, state_timer, position, ship_current_rotation_angle, debris, explosion_core,
      sparks, mini_explosions, electrical_arcs, smoke_clouds>>

\* C5: once is_done() is true it stays true, and update() changes nothing of
\* the sequencer.
C5_DoneIsTerminal == [][is_done => (is_done' /\ UNCHANGED sequencer_fields)]_vars

\* update() has been called on a finished sequence.
C5_Witness == is_done /\ idle_updates >= 1

DebrisLayers == {"debris", "explosion_core", "sparks", "smoke_clouds"}

\* C6: one draw() renders the intact ship or the debris set, never both; the
\* ship only before FRACTURING, debris, fireball, sparks and smoke only from
\* FRACTURING on.
C6_ShipOrDebris ==
    surface.drawn =>
        /\ ~("ship" \in surface.layers /\ surface.layers \cap DebrisLayers # {})
        /\ "ship" \in surface.layers => state \in PreFractureStates
        /\ surface.layers \cap DebrisLayers # {} => state \notin PreFractureStates

C6_Witness ==
    /\ surface.drawn
    /\ {"debris", "explosion_core", "sparks", "smoke_clouds"} \subseteq surface.layers

\* C7: every draw() in INITIAL_FLASH renders the flash overlay with alpha
\* 255 * (1 - state_timer / FLASH_DURATION), clamped to [0, 255].
C7_FlashOverlay ==
    (surface.drawn /\ state = "INITIAL_FLASH") =>
        /\ "flash" \in surface.layers
        /\ surface.flash_alpha = FlashAlpha(state_timer, durations.INITIAL_FLASH)

----------------------------------------------------------------------------
(* Debris pieces under the hosts' frames *)

\* Every piece the hosts hold, and every piece the last frame updated, as it
\* was before and as it is after its update() call.
HeldPieces ==
    {sucking_debris[i] : i \in 1..Len(sucking_debris)}
    \cup {exploding_debris[i] : i \in 1..Len(exploding_debris)}
    \cup {ship_debris[i] : i \in 1..Len(ship_debris)}

SeenPieces ==
    HeldPieces \cup {last_pass[i].before : i \in 1..Len(last_pass)}
               \cup {last_pass[i].after : i \in 1..Len(last_pass)}

\* C8: for every debris piece and every update(dt_factor) call the hosts
\* make, the lifetime does not increase and is not negative after the call.
C8_LifetimeNeverNegative ==
    \A i \in 1..Len(last_pass) :
        /\ last_pass[i].after.lifetime <= last_pass[i].before.lifetime
        /\ last_pass[i].after.lifetime >= 0

\* C9: after construction and after every update() the alpha of a debris
\* piece of any of the three classes is an integer in [0, 255].
C9_AlphaInRange == \A p \in SeenPieces : p.alpha \in 0..255

\* A piece on its way into the black hole is fading.
C9_Witness ==
    \E i \in 1..Len(last_pass) :
        /\ last_pass[i].after.cls = "AsteroidDebrisPiece"
        /\ last_pass[i].after.sucked_in
        /\ last_pass[i].after.alpha > 0
        /\ last_pass[i].after.alpha < 255

\* The distance of a piece or particle from the attractor.
DistanceToHole(p) ==
    Hypot(Px(original_screen_width \div 2) - p.x,
          Px(original_screen_height \div 2) - p.y)

\* C11: every debris piece comes to its end.  An exploding piece loses one
\* tick of lifetime in every update and has none left after as many updates
\* as its initial lifetime; a collapsing piece that is ATTRACTING comes
\* closer to the attractor by more than 2 pixels in every update made at 60
\* pixels or more, whatever its swirl and its place, and is DONE by the
\* update made at less than 60 pixels.
C11_EveryPieceExpires ==
    \A i \in 1..Len(last_pass) :
        LET b == last_pass[i].before
            a == last_pass[i].after
        IN /\ b.cls = "ExplodingDebrisPiece" =>
                /\ a.lifetime = a.made.lifetime - a.ticks * Scale
                /\ a.ticks * Scale <= a.made.lifetime
                /\ a.ticks * Scale = a.made.lifetime => a.lifetime <= 0
           /\ (b.cls = "AsteroidDebrisPiece" /\ b.sucked_in) =>
                IF DistanceToHole(b) >= Px(60)
                THEN DistanceToHole(a) < DistanceToHole(b) - Px(2)
                ELSE a.lifetime <= 0

\* A collapsing piece sucked in more than 500 pixels away has reached the
\* event horizon and is DONE, and the exploding piece is gone.
C11_Witness ==
    /\ exploding_debris = <<>>
    /\ \E i \in 1..Len(last_pass) :
          /\ last_pass[i].before.cls = "AsteroidDebrisPiece"
          /\ last_pass[i].before.sucked_in
          /\ last_pass[i].before.ticks >= 60 + 100
          /\ last_pass[i].before.swirl_strength = (3 * Scale) \div 2
          /\ last_pass[i].after.lifetime <= 0

\* The debris of the asteroids flies on while it is not sucked in.
Floating(p) ==
    \/ p.cls = "ExplodingDebrisPiece"
    \/ p.cls = "AsteroidDebrisPiece" /\ ~p.sucked_in

\* C12: a FLOATING piece that has had k updates with dt_factor 1, the last
\* one included, stands at p0 + k * velocity, is turned by k * rotation_speed
\* and has the lifetime L0 - k: neither drag nor acceleration acts on it.  A
\* piece of lifetime 120 and velocity (1, 0) is 60 pixels further along x and
\* has the lifetime 60 after 60 updates.
C12_FloatingIsLinear ==
    /\ \A i \in 1..Len(last_pass) :
          LET b == last_pass[i].before
              a == last_pass[i].after
          IN Floating(b) =>
                /\ a.ticks = b.ticks + 1
                /\ a.x = a.made.x + a.ticks * a.velocity[1]
                /\ a.y = a.made.y + a.ticks * a.velocity[2]
                /\ a.rotation_angle = a.ticks * a.rotation_speed
                /\ a.lifetime = a.made.lifetime - a.ticks * Scale
    /\ \A p \in SeenPieces :
          (/\ p.cls = "AsteroidDebrisPiece"
           /\ p.made.lifetime = Px(120)
           /\ p.velocity = Vec(Scale, 0)
           /\ p.ticks = 60)
            => (p.x = p.made.x + Px(60) /\ p.y = p.made.y /\ p.lifetime = Px(60))

\* The piece of lifetime 120 and velocity (1, 0) after its 60th update.
C12_Witness ==
    \E i \in 1..Len(last_pass) :
        /\ Floating(last_pass[i].before)
        /\ last_pass[i].after.made.lifetime = Px(120)
        /\ last_pass[i].after.velocity = Vec(Scale, 0)
        /\ last_pass[i].after.ticks = 60
        /\ last_pass[i].after.x = last_pass[i].after.made.x + Px(60)
        /\ last_pass[i].after.lifetime = Px(60)

\* C13: one update of an ATTRACTING piece at a distance d > 0 moves it by
\* attraction_speed 4 along the unit vector (nx, ny) toward the attractor
\* and by 4 * 1.9 * swirl_strength along (-ny, nx), to the 1/20 pixel of the
\* fixed point arithmetic; the component toward the attractor is positive;
\* a piece 100 pixels to the right of the attractor with swirl 1.0 moves by
\* less than 100 pixels.  The components are in 1/100 pixel.
C13_AttractionStep ==
    \A i \in 1..Len(last_pass) :
        LET b == last_pass[i].before
            a == last_pass[i].after
            dx == Px(original_screen_width \div 2) - b.x
            dy == Px(original_screen_height \div 2) - b.y
            dxc == TruncDiv(dx, HypotUnit)
            dyc == TruncDiv(dy, HypotUnit)
            dist == Hypot(dx, dy) \div HypotUnit
            ex == TruncDiv(a.x - b.x, 100)
            ey == TruncDiv(a.y - b.y, 100)
            radial == TruncDiv(ex * dxc + ey * dyc, dist)
            tangential == TruncDiv(ey * dxc - ex * dyc, dist)
            swirl == TruncDiv(76 * b.swirl_strength, 1000)
        IN (b.cls = "AsteroidDebrisPiece" /\ b.sucked_in /\ dist > 0) =>
              /\ radial \in 395..405
              /\ tangential \in (swirl - 5)..(swirl + 5)
              /\ radial > 0
              /\ (dx = -Px(100) /\ dy = 0 /\ b.swirl_strength = Scale) =>
                    Hypot(a.x - b.x, a.y - b.y) < Px(100)

\* The piece 100 pixels to the right of the attractor with swirl 1.0 has
\* moved 4 pixels toward it and 7.6 pixels across.
C13_Witness ==
    \E i \in 1..Len(last_pass) :
        /\ last_pass[i].before.cls = "AsteroidDebrisPiece"
        /\ last_pass[i].before.sucked_in
        /\ last_pass[i].before.swirl_strength = Scale
        /\ last_pass[i].before.x = Px(original_screen_width \div 2) + Px(100)
        /\ last_pass[i].before.y = Px(original_screen_height \div 2)
        /\ last_pass[i].after.x = last_pass[i].before.x - Px(4)
        /\ last_pass[i].after.y = last_pass[i].before.y - (76 * Scale) \div 10

\* A piece or particle that is sucked in and stands exactly on the attractor.
AtAttractor(p) ==
    /\ p.sucked_in
    /\ p.x = Px(original_screen_width \div 2)
    /\ p.y = Px(original_screen_height \div 2)

\* C14: the update of an ATTRACTING piece, or of a sucked-in particle, that
\* stands exactly on the attractor (distance 0) divides by nothing and leaves
\* the position where it is; the debris piece is DONE after that update.
C14_NoStepAtAttractor ==
    /\ \A i \in 1..Len(last_pass) :
          (last_pass[i].before.cls = "AsteroidDebrisPiece"
              /\ AtAttractor(last_pass[i].before)) =>
                /\ last_pass[i].after.x = last_pass[i].before.x
                /\ last_pass[i].after.y = last_pass[i].before.y
                /\ last_pass[i].after.lifetime <= 0
    /\ \A i \in 1..Len(last_particles) :
          AtAttractor(last_particles[i].before) =>
                /\ last_particles[i].after.x = last_particles[i].before.x
                /\ last_particles[i].after.y = last_particles[i].before.y

\* A piece and a particle on the attractor have been updated.
C14_Witness ==
    /\ \E i \in 1..Len(last_pass) :
          /\ last_pass[i].before.cls = "AsteroidDebrisPiece"
          /\ AtAttractor(last_pass[i].before)
          /\ last_pass[i].before.lifetime > 0
          /\ last_pass[i].after.lifetime = 0
    /\ \E i \in 1..Len(last_particles) :
          /\ AtAttractor(last_particles[i].before)
          /\ AtAttractor(last_particles[i].after)

\* The box of a triangle cut to the image [0, W] x [0, H], in 1/Sub pixel.
BoxInImage(t, W, H) ==
    LET x0 == Max(0, Min(t[1][1], Min(t[2][1], t[3][1])))
        x1 == Min(W * Sub, Max(t[1][1], Max(t[2][1], t[3][1])))
        y0 == Max(0, Min(t[1][2], Min(t[2][2], t[3][2])))
        y1 == Min(H * Sub, Max(t[1][2], Max(t[2][2], t[3][2])))
    IN [x0 |-> x0, x1 |-> x1, y0 |-> y0, y1 |-> y1]

\* A box of at least one pixel each way.
AtLeastOnePixel(b) == b.x1 - b.x0 >= Sub /\ b.y1 - b.y0 >= Sub

\* The triangles of a call whose box in the image is at least one pixel
\* each way, in the order of the triangulation.
KeptTriangles(call) ==
    LET Kept(t) == AtLeastOnePixel(BoxInImage(t, call.img_width, call.img_height))
    IN SelectSeq(call.tri.simplices, Kept)

\* A fragment as the factory returned it: its centre relative to the centre
\* of the image it was cut from (fixed point) and the size of its surface
\* (pixels).
Fragment(call, p) ==
    IF call.factory = "_create_cinematic_debris"
    THEN [dx |-> p.pos[1] - call.center_x, dy |-> p.pos[2] - call.center_y,
          w |-> p.w, h |-> p.h]
    ELSE [dx |-> p.x - call.center_x, dy |-> p.y - call.center_y,
          w |-> p.image.w, h |-> p.image.h]

\* The fragment f is the part of the image in the box b: it sits at the
\* centre of the box and has its size, cut to whole pixels.
FragmentOfBox(f, b, W, H) ==
    /\ f.w = (b.x1 - b.x0) \div Sub
    /\ f.h = (b.y1 - b.y0) \div Sub
    /\ f.dx = ((b.x0 + b.x1 - W * Sub) * Scale) \div (2 * Sub)
    /\ f.dy = ((b.y0 + b.y1 - H * Sub) * Scale) \div (2 * Sub)

\* The fragment f lies inside the image of W x H pixels.
FragmentInsideImage(f, W, H) ==
    /\ 2 * f.dx - Px(f.w) >= -Px(W)
    /\ 2 * f.dx + Px(f.w) <= Px(W)
    /\ 2 * f.dy - Px(f.h) >= -Px(H)
    /\ 2 * f.dy + Px(f.h) <= Px(H)

\* C15: a factory emits, in the order of the triangulation, one fragment for
\* every triangle whose box clamped to the image is at least one pixel wide
\* and high, and none for the others; each fragment is at least 1 x 1, is
\* the clamped box of its triangle and lies inside the image.  A skipped
\* triangle does not end the loop: the triangles after it are emitted.
C15_SkippedOrInsideImage ==
    \A k \in 1..Len(generated) :
        LET call == generated[k]
            kept == KeptTriangles(call)
        IN call.tri.ok =>
              /\ Len(call.out) = Len(kept)
              /\ \A i \in 1..Len(kept) :
                    LET f == Fragment(call, call.out[i])
                        b == BoxInImage(kept[i], call.img_width, call.img_height)
                    IN /\ f.w >= 1
                       /\ f.h >= 1
                       /\ FragmentOfBox(f, b, call.img_width, call.img_height)
                       /\ FragmentInsideImage(f, call.img_width, call.img_height)

\* A call whose first triangle is skipped, whose later triangles are
\* emitted, and one of them reaches outside the image before the clamp.
C15_Witness ==
    \E k \in 1..Len(generated) :
        LET call == generated[k]
            tris == call.tri.simplices
        IN /\ call.tri.ok
           /\ call.factory = "create_asteroid_debris"
           /\ Len(tris) > 1
           /\ ~AtLeastOnePixel(BoxInImage(tris[1], call.img_width, call.img_height))
           /\ Len(call.out) = Len(tris) - 2
           /\ \E i \in 2..Len(tris) :
                 /\ AtLeastOnePixel(BoxInImage(tris[i], call.img_width, call.img_height))
                 /\ \E v \in 1..3 : tris[i][v][2] < 0

\* C16: a factory whose triangulation raised returns the empty list (the
\* caller gets a list to extend its debris with, not an exception).
C16_FailedTriangulationGivesNoDebris ==
    \A k \in 1..Len(generated) :
        ~generated[k].tri.ok => generated[k].out = <<>>

\* The triangulation raised in a call of each of the three factories.
C16_Witness ==
    \A factory \in {"create_exploding_debris", "create_ship_debris",
                     "_create_cinematic_debris"} :
        \E k \in 1..Len(generated) :
            /\ generated[k].factory = factory
            /\ ~generated[k].tri.ok
            /\ generated[k].out = <<>>

\* The calls of _create_debris_base.
AsteroidFactories == {"create_asteroid_debris", "create_exploding_debris"}

\* The bounding boxes of the fragments a call returned: the boxes of the
\* triangles that a returned fragment was cut from.
EmittedBoxes(call) ==
    { BoxInImage(call.tri.simplices[j], call.img_width, call.img_height) :
        j \in { n \in 1..Len(call.tri.simplices) :
                  \E i \in 1..Len(call.out) :
                      FragmentOfBox(Fragment(call, call.out[i]),
                                    BoxInImage(call.tri.simplices[n],
                                               call.img_width, call.img_height),
                                    call.img_width, call.img_height) } }

\* The boxes cut the image [0, W] x [0, H] into cells along their edges; the
\* boxes cover the image when they cover the middle of every cell.  The
\* middles are taken in halves of 1/Sub pixel.
BoxesCoverImage(boxes, W, H) ==
    LET xs == {0, W * Sub} \cup {b.x0 : b \in boxes} \cup {b.x1 : b \in boxes}
        ys == {0, H * Sub} \cup {b.y0 : b \in boxes} \cup {b.y1 : b \in boxes}
    IN \A xa \in xs, xb \in xs, ya \in ys, yb \in ys :
          (xa < xb /\ ya < yb) =>
              \E b \in boxes :
                  /\ 2 * b.x0 <= xa + xb
                  /\ xa + xb <= 2 * b.x1
                  /\ 2 * b.y0 <= ya + yb
                  /\ ya + yb <= 2 * b.y1

StoppedWhenDone ==
    (is_finished /\ seen_updates = n_updates) =>
        /\ game_state = "GAME_OVER"
        /\ ~surface.drawn
        /\ idle_updates = 0

\* C18: in a frame the host calls update() and then draw(), each at most
\* once and never draw() without update() before it; when is_done() turns
\* true it is in GAME_OVER before the draw block and calls neither again.
C18_UpdateBeforeDrawUntilDone ==
    /\ frame_calls \in { <<>>, <<"update">>, <<"update", "draw">> }
    /\ StoppedWhenDone

\* The same with the frame that constructs the sequencer set apart: it is
\* the only one that draws without an update.
UpdateBeforeDrawAfterFirstFrame ==
    /\ frame_calls \in { <<>>, <<"draw">>, <<"update">>, <<"update", "draw">> }
    /\ frame_calls = <<"draw">> => n_updates <= 1
    /\ StoppedWhenDone

\* The update() calls the configuration gives to the states before the i-th
\* of StateOrder.
RECURSIVE UpdatesBefore(_)
UpdatesBefore(i) ==
    IF i = 1 THEN 0 ELSE UpdatesBefore(i - 1) + durations[StateOrder[i - 1]]

\* C19: a timed state is entered with state_timer 0 after exactly the
\* durations of the states before it, state_timer counts the updates spent
\* in it and stays under its duration, so the state is left in the update
\* that brings the timer to the duration; COASTING begins, with state_timer
\* 0, after the sum of the seven durations (258 as configured), and
\* is_done() is false up to then.
C19_ConfiguredDurationPerState ==
    /\ \A i \in 1..7 :
          state = StateOrder[i] =>
              /\ state_timer >= 0
              /\ state_timer < durations[StateOrder[i]]
              /\ n_updates = UpdatesBefore(i) + state_timer
    /\ state = "COASTING" =>
          n_updates - idle_updates = UpdatesBefore(8) + state_timer
    /\ n_updates <= UpdatesBefore(8) => ~is_done
    /\ durations = ConfiguredDurations => UpdatesBefore(8) = 258

\* COASTING has just begun, 258 updates after the construction.
C19_Witness ==
    /\ durations = ConfiguredDurations
    /\ state = "COASTING"
    /\ state_timer = 0
    /\ n_updates = 258
    /\ ~is_done

\* The debris set is, piece by piece, what the one call of the generator
\* returned: none added, none removed.
DebrisAsGenerated ==
    /\ Len(generated) = 1
    /\ debris.some
    /\ Len(debris.val) = Len(generated[1].out)
    /\ \A i \in 1..Len(debris.val) :
          /\ debris.val[i].w = generated[1].out[i].w
          /\ debris.val[i].h = generated[1].out[i].h
          /\ debris.val[i].rotation_speed = generated[1].out[i].rotation_speed

\* C20: _create_cinematic_debris is not called before FRACTURING, it is
\* called once in the update that goes from INITIAL_FLASH to FRACTURING, and
\* from then on, up to the end of the sequence and after it, the debris set
\* holds the pieces of that call.
C20_GeneratedOnceAtFracture ==
    /\ [](IF state \in PreFractureStates
           THEN generated = <<>> /\ ~debris.some
           ELSE DebrisAsGenerated)
    /\ [][generated' # generated =>
             /\ state = "INITIAL_FLASH"
             /\ state' = "FRACTURING"
             /\ Len(generated') = 1
             /\ generated'[1].factory = "_create_cinematic_debris"]_vars

\* The sequence has finished with the four pieces the generator made, all of
\* them off the screen.
C20_Witness ==
    /\ state = "COASTING"
    /\ is_finished
    /\ Len(generated) = 1
    /\ Len(generated[1].out) = 4
    /\ Len(debris.val) = 4

\* C21: is_done() turns true only in an update made in COASTING, and while
\* it is true the sequencer is in COASTING and the rectangle of no debris
\* piece, all of them moved, meets the viewport.
C21_DoneOnlyWhenAllOffScreen ==
    /\ [](is_done =>
             /\ state = "COASTING"
             /\ debris.some
             /\ \A i \in 1..Len(debris.val) : ~OnScreen(debris.val[i]))
    /\ [][(~is_done /\ is_done') =>
             /\ state = "COASTING"
             /\ state' = "COASTING"
             /\ n_updates' = n_updates + 1
             /\ \A i \in 1..Len(debris.val) :
                   debris'.val[i].pos # debris.val[i].pos]_vars

\* The sequence finished when the last of several pieces left the viewport.
C21_Witness ==
    /\ is_done
    /\ idle_updates = 0
    /\ Len(debris.val) > 1
    /\ \A i \in 1..Len(debris.val) : ~OnScreen(debris.val[i])

\* A state has just been entered: the update that left the one before it has
\* returned and none has been made since.
JustEntered(s) == state = s /\ state_timer = 0 /\ ~raised

\* The fireball stands at the explosion centre.
CoreAtCentre == explosion_core.some /\ explosion_core.val.pos = position

\* The sparks and the smoke puffs of the burst, as the constructors leave
\* them, at the explosion centre.
FreshBurst ==
    /\ Len(sparks) = SPARK_COUNT
    /\ \A i \in 1..Len(sparks) :
          sparks[i].origin = position /\ sparks[i].lifetime = SPARK_LIFETIME
    /\ Len(smoke_clouds) = SMOKE_CLOUD_COUNT
    /\ \A i \in 1..Len(smoke_clouds) :
          smoke_clouds[i].origin = position /\ smoke_clouds[i].current_lifetime = 0

\* C22 as stated: on entry to FRACTURING the sequencer holds the fireball,
\* 50 sparks and 30 smoke puffs, made at the explosion centre in the update
\* that left INITIAL_FLASH.
C22_BurstOnFractureEntry ==
    JustEntered("FRACTURING") =>
        /\ CoreAtCentre
        /\ Len(sparks) = 50
        /\ Len(smoke_clouds) = 30

\* C22 amended: on entry to FRACTURING the sequencer holds the fireball at
\* the explosion centre and neither sparks nor smoke puffs; the 50 sparks
\* and the 30 smoke puffs are made at the explosion centre in the update
\* that leaves FRACTURING, so it holds them on entry to EXPANDING_CORE.
C22_BurstOnExpandEntry ==
    /\ state \in PreFractureStates =>
          ~explosion_core.some /\ sparks = <<>> /\ smoke_clouds = <<>>
    /\ state = "FRACTURING" =>
          CoreAtCentre /\ sparks = <<>> /\ smoke_clouds = <<>>
    /\ JustEntered("EXPANDING_CORE") =>
          /\ CoreAtCentre
          /\ FreshBurst
          /\ SPARK_COUNT = 50
          /\ SMOKE_CLOUD_COUNT = 30

\* EXPANDING_CORE has just been entered with the burst in place.
C22_Witness ==
    /\ JustEntered("EXPANDING_CORE")
    /\ durations = ConfiguredDurations
    /\ Len(sparks) = 50
    /\ Len(smoke_clouds) = 30
    /\ explosion_core.some

\* The step is an update() call on a sequence that was not finished.
UpdateStep == ~is_finished /\ n_updates' = n_updates + 1

ShakeStates == {"SHAKE_1", "SHAKE_2"}

\* The mini-explosions of a list that have not been updated yet: those the
\* last update() spawned.
FreshMinis(minis) == Cardinality({i \in 1..Len(minis) : minis[i].timer = 0})

\* C23: an update made in a shake state with the counter at 5 or at 15
\* spawns 2 to 4 mini-explosions, with or without sounds; every other
\* update spawns none.  The counter takes each value once in a state, so a
\* state has at most one burst per offset and two in all.
C23_BurstsAtFiveAndFifteen ==
    [][UpdateStep =>
          IF state \in ShakeStates /\ state_timer + 1 \in {5, 15}
          THEN FreshMinis(mini_explosions') \in 2..4
          ELSE FreshMinis(mini_explosions') = 0]_vars

\* Without sounds, SHAKE_1 has just been left at counter 15 with its second
\* burst fresh, although no sound was counted.
C23_Witness ==
    /\ ~mini_explosion_sounds
    /\ durations = ConfiguredDurations
    /\ state = "DELAY_1"
    /\ state_timer = 0
    /\ shake_1_sounds_played = 0
    /\ FreshMinis(mini_explosions) \in 2..4

PreFlashStates == {"SHAKE_1", "DELAY_1", "SHAKE_2", "DELAY_2"}

\* The top-level arcs of a list that have not been updated yet: those the
\* last update() appended.
FreshArcs(arcs) == Cardinality({i \in 1..Len(arcs) : arcs[i].lifetime = ARC_LIFETIME})

\* C24: in a pre-flash state an update whose counter is a multiple of 3
\* adds 1 or 2 top-level arcs and any other update adds none.
C24_OneOrTwoArcs ==
    [][(UpdateStep /\ state \in PreFlashStates) =>
          IF (state_timer + 1) % 3 = 0
          THEN FreshArcs(electrical_arcs') \in 1..2
          ELSE FreshArcs(electrical_arcs') = 0]_vars

\* What the code does: an update whose counter is a multiple of 3 adds 1 or
\* 2 top-level arcs in DELAY_1 and DELAY_2 and 2 to 4 in SHAKE_1 and
\* SHAKE_2, where the spawn of every state and the spawn of the shake each
\* add 1 or 2; any other update adds none.
ArcsEveryThirdFrame ==
    [][(UpdateStep /\ state \in PreFlashStates) =>
          IF (state_timer + 1) % 3 # 0
          THEN FreshArcs(electrical_arcs') = 0
          ELSE IF state \in ShakeStates
               THEN FreshArcs(electrical_arcs') \in 2..4
               ELSE FreshArcs(electrical_arcs') \in 1..2]_vars

\* The third update of SHAKE_1 has added four arcs.
FourArcsInShake ==
    /\ state = "SHAKE_1"
    /\ state_timer = 3
    /\ FreshArcs(electrical_arcs) = 4

\* w is v * num / den, cut to a whole number of 1/Scale pixel towards zero.
ScaledBy(v, w, num, den) ==
    IF v >= 0 THEN num * v - den * w \in 0..(den - 1)
              ELSE den * w - num * v \in 0..(den - 1)

\* An update of the sequencer in state s that moved the debris.
DebrisStep(s) ==
    /\ UpdateStep
    /\ state = s
    /\ debris.some
    /\ ~raised'

SamePieces == debris'.some /\ Len(debris'.val) = Len(debris.val)

\* C26: an update in FRACTURING advances the position of every piece by its
\* velocity times FRACTURE_SPEED (0.02, one fiftieth) and leaves its
\* velocity and its rotation angle as they were.
C26_FractureNudgesOnly ==
    [][DebrisStep("FRACTURING") =>
          /\ SamePieces
          /\ \A i \in 1..Len(debris.val) :
                /\ \A k \in 1..2 :
                      ScaledBy(debris.val[i].velocity[k],
                               debris'.val[i].pos[k] - debris.val[i].pos[k], 1, 50)
                /\ debris'.val[i].velocity = debris.val[i].velocity
                /\ debris'.val[i].rotation_angle = debris.val[i].rotation_angle]_vars

\* Late in FRACTURING with the configured durations: a tumbling piece has
\* been nudged away from where it was generated and has not turned.
C26_Witness ==
    /\ state = "FRACTURING"
    /\ state_timer >= 2
    /\ debris.some
    /\ Len(generated) = 1
    /\ \E i \in 1..Len(debris.val) :
          /\ debris.val[i].rotation_speed # 0
          /\ debris.val[i].rotation_angle = 0
          /\ debris.val[i].velocity = generated[1].out[i].velocity
          /\ debris.val[i].pos[1] # generated[1].out[i].pos[1]
          /\ debris.val[i].pos[2] # generated[1].out[i].pos[2]

\* C27: updates in FRACTURING and in EXPANDING_CORE leave the velocity of
\* every piece unchanged, an update in EXPANDING_CORE moves the piece by its
\* whole velocity, and an update in COASTING moves the piece by the velocity
\* it had and then multiplies that velocity by 0.995 (199/200), once.
C27_DragOnlyInCoast ==
    /\ [][(DebrisStep("FRACTURING") \/ DebrisStep("EXPANDING_CORE")) =>
             /\ SamePieces
             /\ \A i \in 1..Len(debris.val) :
                   debris'.val[i].velocity = debris.val[i].velocity]_vars
    /\ [][(DebrisStep("EXPANDING_CORE") \/ DebrisStep("COASTING")) =>
             /\ SamePieces
             /\ \A i \in 1..Len(debris.val) : \A k \in 1..2 :
                   debris'.val[i].pos[k] =
                       debris.val[i].pos[k] + debris.val[i].velocity[k]]_vars
    /\ [][DebrisStep("COASTING") =>
             /\ SamePieces
             /\ \A i \in 1..Len(debris.val) : \A k \in 1..2 :
                   ScaledBy(debris.val[i].velocity[k], debris'.val[i].velocity[k],
                            199, 200)]_vars

\* In COASTING after two updates there: a piece is slower than it was
\* generated, on both axes, and still moving.
C27_Witness ==
    /\ state = "COASTING"
    /\ state_timer = 2
    /\ debris.some
    /\ Len(generated) = 1
    /\ \E i \in 1..Len(debris.val) :
          /\ debris.val[i].velocity[1] # 0
          /\ debris.val[i].velocity[2] # 0
          /\ debris.val[i].velocity[1] # generated[1].out[i].velocity[1]
          /\ debris.val[i].velocity[2] # generated[1].out[i].velocity[2]

\* The position handed to the constructor (line 276).
InitialPosition ==
    Vec(Px(original_screen_width \div 2), Px(original_screen_height \div 2))

\* C28: the drift velocity and the angular velocity never change; an update
\* in one of the four states before the flash moves the position by the
\* drift velocity and the rotation by the angular velocity; from the flash on
\* nothing changes either; so with the configured durations the debris and
\* the fireball are created at the initial position plus 155 times the drift.
C28_DriftUntilFlash ==
    /\ [][/\ ship_drift_velocity' = ship_drift_velocity
           /\ ship_angular_velocity' = ship_angular_velocity]_vars
    /\ [][(UpdateStep /\ state \in PreFlashStates) =>
             /\ position' = Vec(position[1] + ship_drift_velocity[1],
                                position[2] + ship_drift_velocity[2])
             /\ ship_current_rotation_angle' =
                    ship_current_rotation_angle + ship_angular_velocity]_vars
    /\ [][(state \notin PreFlashStates) =>
             /\ position' = position
             /\ ship_current_rotation_angle' = ship_current_rotation_angle]_vars
    /\ []((durations = ConfiguredDurations /\ generated # <<>>) =>
             /\ generated[1].center_x = InitialPosition[1] + 155 * ship_drift_velocity[1]
             /\ generated[1].center_y = InitialPosition[2] + 155 * ship_drift_velocity[2]
             /\ explosion_core.some
             /\ explosion_core.val.pos =
                    Vec(InitialPosition[1] + 155 * ship_drift_velocity[1],
                        InitialPosition[2] + 155 * ship_drift_velocity[2]))

\* A drifting, turning ship with the configured durations has reached
\* COASTING: its debris was generated 155 drift steps from the start and it
\* has turned 155 times.
C28_Witness ==
    /\ state = "COASTING"
    /\ durations = ConfiguredDurations
    /\ ship_drift_velocity = Vec(Scale, Scale)
    /\ ship_angular_velocity # 0
    /\ Len(generated) = 1
    /\ generated[1].center_x = InitialPosition[1] + 155 * Scale
    /\ position = Vec(InitialPosition[1] + 155 * Scale, InitialPosition[2] + 155 * Scale)
    /\ ship_current_rotation_angle = 155 * ship_angular_velocity

\* The arcs of the tree under an arc, itself included.
RECURSIVE ArcTree(_)
ArcTree(arc) ==
    {arc} \cup UNION {ArcTree(arc.child_arcs[i]) : i \in 1..Len(arc.child_arcs)}

\* C25: the tree of a constructed arc is finite, no arc in it is deeper than
\* MAX_BRANCH_DEPTH (2), an arc at depth 2 has no children, no arc has more
\* than 5, and a child is one level deeper than its parent with half its
\* length and 0.7 times its jitter.
C25_ArcTreeBounded ==
    \A k \in 1..Len(electrical_arcs) :
        /\ electrical_arcs[k].depth = 0
        /\ \A arc \in ArcTree(electrical_arcs[k]) :
              /\ arc.depth <= 2
              /\ arc.depth <= MAX_BRANCH_DEPTH
              /\ arc.depth = 2 => arc.child_arcs = <<>>
              /\ Len(arc.child_arcs) <= 5
              /\ \A i \in 1..Len(arc.child_arcs) :
                    /\ arc.child_arcs[i].depth = arc.depth + 1
                    /\ 2 * arc.child_arcs[i].current_length = arc.current_length
                    /\ 10 * arc.child_arcs[i].current_jitter = 7 * arc.current_jitter

\* An arc whose every segment branched at depth 0 and at depth 1: five
\* children, each with five children of depth 2 that have none.
C25_Witness ==
    \E k \in 1..Len(electrical_arcs) :
        /\ Len(electrical_arcs[k].child_arcs) = 5
        /\ \A i \in 1..5 :
              /\ Len(electrical_arcs[k].child_arcs[i].child_arcs) = 5
              /\ \A j \in 1..5 :
                    /\ electrical_arcs[k].child_arcs[i].child_arcs[j].depth = 2
                    /\ electrical_arcs[k].child_arcs[i].child_arcs[j].child_arcs = <<>>

\* FLOATING is 0, ATTRACTING is 1, DONE is 2.
DebrisPhase(p) ==
    IF p.lifetime <= 0 THEN 2
    ELSE IF p.cls = "AsteroidDebrisPiece" /\ p.sucked_in THEN 1
    ELSE 0

\* One more update() of a piece, as the host of its class calls it.
UpdatedAgain(p) ==
    IF p.cls = "AsteroidDebrisPiece"
    THEN AsteroidDebrisPieceUpdate(p, Scale, Px(original_screen_width \div 2),
                                   Px(original_screen_height \div 2))
    ELSE ExplodingDebrisPieceUpdate(p, Scale)

\* C10: a collapsing piece goes from FLOATING to ATTRACTING to DONE one phase
\* at a time, an exploding piece goes from FLOATING to DONE and is never
\* ATTRACTING, sucked_in is never reset, and a piece whose lifetime reached 0
\* stays there however often it is updated.
C10_PhasesOneWay ==
    \A i \in 1..Len(last_pass) :
        LET b == last_pass[i].before
            a == last_pass[i].after
        IN b.cls \in {"AsteroidDebrisPiece", "ExplodingDebrisPiece"} =>
            /\ DebrisPhase(a) >= DebrisPhase(b)
            /\ b.cls = "AsteroidDebrisPiece" =>
                  /\ DebrisPhase(a) <= DebrisPhase(b) + 1
                  /\ b.sucked_in => a.sucked_in
            /\ b.cls = "ExplodingDebrisPiece" => DebrisPhase(a) # 1
            /\ a.lifetime <= 0 => UpdatedAgain(a).lifetime <= 0

\* A collapsing piece that floated and was pulled in has reached the black
\* hole.
C10_Witness ==
    \E i \in 1..Len(last_pass) :
        /\ last_pass[i].before.cls = "AsteroidDebrisPiece"
        /\ DebrisPhase(last_pass[i].before) = 1
        /\ DebrisPhase(last_pass[i].after) = 2
        /\ last_pass[i].after.x # last_pass[i].before.x

\* The piece as it would be with no ballistic velocity and no rotation
\* speed.
Becalmed(p) == [p EXCEPT !.velocity = Vec(0, 0), !.rotation_speed = 0]

\* C29: a collapsing piece is sucked in by the first update that leaves its
\* lifetime at or below half the lifetime it was made with; every later
\* update moves it as it would move a piece without velocity and rotation
\* speed, leaves its angle alone, and leaves its lifetime alone unless the
\* piece is DONE by that update.
C29_SuckedInAtHalfLife ==
    \A i \in 1..Len(last_pass) :
        LET b == last_pass[i].before
            a == last_pass[i].after
        IN b.cls = "AsteroidDebrisPiece" =>
            /\ ~b.sucked_in =>
                  /\ 2 * b.lifetime > b.made.lifetime
                  /\ a.sucked_in <=> (2 * a.lifetime <= a.made.lifetime)
            /\ b.sucked_in =>
                  /\ 2 * b.lifetime <= b.made.lifetime
                  /\ a.x = UpdatedAgain(Becalmed(b)).x
                  /\ a.y = UpdatedAgain(Becalmed(b)).y
                  /\ a.rotation_angle = b.rotation_angle
                  /\ a.velocity = b.velocity
                  /\ a.lifetime = b.lifetime \/ DebrisPhase(a) = 2
                  /\ DebrisPhase(a) = 2 => DistanceToHole(b) < Px(60)

\* The update in which the piece made with lifetime 121 is sucked in, at
\* lifetime 60, while a turning piece of the same asteroid that was sucked
\* in before is pulled along at the lifetime it had.
C29_Witness ==
    /\ \E i \in 1..Len(last_pass) :
          /\ last_pass[i].before.cls = "AsteroidDebrisPiece"
          /\ last_pass[i].before.made.lifetime = Px(121)
          /\ ~last_pass[i].before.sucked_in
          /\ last_pass[i].after.sucked_in
          /\ last_pass[i].after.lifetime = Px(60)
    /\ \E i \in 1..Len(last_pass) :
          /\ last_pass[i].before.cls = "AsteroidDebrisPiece"
          /\ last_pass[i].before.sucked_in
          /\ last_pass[i].before.rotation_speed # 0
          /\ last_pass[i].before.velocity # Vec(0, 0)
          /\ last_pass[i].after.lifetime = last_pass[i].before.lifetime
          /\ last_pass[i].after.lifetime > 0
          /\ last_pass[i].after.x # last_pass[i].before.x

\* The updates of the last frame that pulled a collapsing piece.
PulledPieces ==
    {i \in 1..Len(last_pass) :
        last_pass[i].before.cls = "AsteroidDebrisPiece" /\ last_pass[i].before.sucked_in}

\* The updates of the last frame that pulled a particle.
PulledParticles == {i \in 1..Len(last_particles) : last_particles[i].before.sucked_in}

\* An update made at 60 pixels or more from the attractor brings the piece
\* or the particle closer to it.
CloserOutsideHorizon ==
    /\ \A i \in PulledPieces :
          DistanceToHole(last_pass[i].before) >= Px(60) =>
              DistanceToHole(last_pass[i].after) < DistanceToHole(last_pass[i].before)
    /\ \A i \in PulledParticles :
          DistanceToHole(last_particles[i].before) >= Px(60) =>
              DistanceToHole(last_particles[i].after) <
                  DistanceToHole(last_particles[i].before)

KeptAtBay(before, after) ==
    DistanceToHole(before) > 0 =>
        DistanceToHole(after) >= TruncDiv(76 * before.swirl_strength, 10) - Scale \div 10

SwirlInRange(p) == p.swirl_strength \in (Scale \div 2)..((3 * Scale) \div 2)

ExplodingPasses ==
    {i \in 1..Len(last_pass) : last_pass[i].before.cls = "ExplodingDebrisPiece"}

\* The alpha is 0 exactly when no lifetime is left, and does not go up.
FadesOut(b, a) ==
    /\ b.ticks = 0 => b.alpha = 255
    /\ a.alpha <= b.alpha
    /\ a.alpha = 0 <=> a.lifetime <= 0

C32_SameAttractionStep ==
    /\ (sucking_debris # <<>> /\ particle_effects[1] # <<>>) =>
          /\ particle_effects[1][1].x = sucking_debris[1].x
          /\ particle_effects[1][1].y = sucking_debris[1].y
    /\ (last_pass # <<>> /\ last_particles # <<>>) =>
          /\ last_pass[1].before.sucked_in /\ last_particles[1].before.sucked_in
          /\ last_particles[1].before.swirl_strength = last_pass[1].before.swirl_strength
          /\ last_particles[1].before.x = last_pass[1].before.x
          /\ last_particles[1].before.y = last_pass[1].before.y
          /\ last_particles[1].after.x = last_pass[1].after.x
          /\ last_particles[1].after.y = last_pass[1].after.y

\* A piece and a particle with swirl 1.5 that were sucked in together have
\* been pulled 50 times and have moved again in the last frame.
C32_Witness ==
    /\ last_pass # <<>>
    /\ last_particles # <<>>
    /\ last_pass[1].before.swirl_strength = (3 * Scale) \div 2
    /\ last_pass[1].after.ticks >= 60 + 50
    /\ last_pass[1].after.x # last_pass[1].before.x
    /\ last_pass[1].after.y # last_pass[1].before.y
    /\ last_particles[1].after.x = last_pass[1].after.x
    /\ last_particles[1].after.y = last_pass[1].after.y

\* The calls of the factories of the hosts' debris.
HostFactories == AsteroidFactories \cup {"create_ship_debris"}

\* One unit of the triangulation, 1/Sub pixel, in fixed point.
SubUnit == Scale \div Sub

\* The piece p of a call, drawn unturned and centred on its position with
\* the size of the box b, has its edges where the edges of b are when the
\* image is centred on the centre given to the call.  Twice the
\* coordinates, to have no halves.
DrawnWhereCut(call, p, b) ==
    LET left2 == 2 * call.center_x - Px(call.img_width)
        top2 == 2 * call.center_y - Px(call.img_height)
    IN /\ p.rotation_angle = 0
       /\ p.ticks = 0
       /\ 2 * p.x - (b.x1 - b.x0) * SubUnit = left2 + 2 * b.x0 * SubUnit
       /\ 2 * p.x + (b.x1 - b.x0) * SubUnit = left2 + 2 * b.x1 * SubUnit
       /\ 2 * p.y - (b.y1 - b.y0) * SubUnit = top2 + 2 * b.y0 * SubUnit
       /\ 2 * p.y + (b.y1 - b.y0) * SubUnit = top2 + 2 * b.y1 * SubUnit

HitOf(call) ==
    CHOOSE c \in Collisions :
        /\ c.center_x = call.center_x
        /\ c.center_y = call.center_y
        /\ c.img_width = call.img_width
        /\ c.img_height = call.img_height
        /\ c.tri = call.tri

\* The velocity of a piece whose box is bb, thrown with the modifier
\* 0.5 + d / max_radius, d the distance from the centre of the box to the
\* centre of the image.
ThrownByDistance(bb, img_width, img_height, draw) ==
    LET offx2 == 2 * bb.min_x + bb.bbox_width - 2 * Sub * (img_width \div 2)
        offy2 == 2 * bb.min_y + bb.bbox_height - 2 * Sub * (img_height \div 2)
    IN JitteredVelocity(offx2, offy2, draw.jitter,
                        MulFix(draw.speed,
                               SpeedModifier(offx2, offy2, img_width, img_height)))

\* C34: whatever the shape of the image, a piece of _create_debris_base is
\* thrown with its speed times 0.5 + d / max_radius, d the distance from the
\* centre of its box to the centre of the image, which is the d that
\* create_ship_debris finds for the same piece.
C34_ModifierFromDistance ==
    \A k \in 1..Len(generated) :
        LET call == generated[k]
            kept == KeptTriangles(call)
        IN (call.factory \in AsteroidFactories /\ call.tri.ok) =>
              \A i \in 1..Len(kept) :
                  LET bb == ClampedBBox(kept[i], call.img_width, call.img_height)
                      draw == HitOf(call).draws[i]
                  IN /\ call.out[i].velocity =
                            ThrownByDistance(bb, call.img_width, call.img_height, draw)
                     /\ call.out[i].velocity =
                            ShipPiece(bb, call.img_width, call.img_height,
                                      call.center_x, call.center_y, draw).velocity

\* The debris lists of the host, one after the other.
AllDebris == sucking_debris \o exploding_debris \o ship_debris

\* The pieces as the last pass found them and as it left them.
PassBefores == [i \in 1..Len(last_pass) |-> last_pass[i].before]

PassAfters == [i \in 1..Len(last_pass) |-> last_pass[i].after]

HasBeenUpdated(p) == p.ticks >= 1

\* C35: a pass of the debris loops of a host updates every piece that was
\* in the lists when it began, once (pieces with equal fields are counted
\* one by one); what it leaves in the lists are the
\* pieces it updated that still have lifetime > 0, in their order, so a
\* piece that its update left at lifetime <= 0 is removed by that pass and
\* no list ever holds such a piece for draw to visit.
C35_PassUpdatesOnceAndReaps ==
    /\ [](/\ \A i \in 1..Len(AllDebris) : AllDebris[i].lifetime > 0
          /\ \A i \in 1..Len(last_pass) :
                last_pass[i].after.ticks = last_pass[i].before.ticks + 1
          /\ last_pass # <<>> =>
                SelectSeq(AllDebris, HasBeenUpdated) = SelectSeq(PassAfters, StillAlive))
    /\ [][(last_pass' # <<>> \/ AllDebris # <<>>) =>
             \A i \in 1..Len(AllDebris) :
                 Cardinality({j \in 1..Len(last_pass') :
                                 last_pass'[j].before = AllDebris[i]})
                   = Cardinality({j \in 1..Len(AllDebris) :
                                     AllDebris[j] = AllDebris[i]})]_vars

\* A pass over the ship debris in slow motion removed pieces from the
\* middle of the list and left the pieces before them.
C35_Witness ==
    /\ game_state = "DESTRUCTION"
    /\ Len(last_pass) >= 3
    /\ \E i \in 2..Len(last_pass) :
          /\ last_pass[i].after.lifetime <= 0
          /\ last_pass[i - 1].after.lifetime > 0
    /\ ship_debris # <<>>
    /\ Len(ship_debris) < Len(last_pass)

LateStates == {"FRACTURING", "EXPANDING_CORE", "COASTING"}

\* C36: while the sequencer is in FRACTURING, EXPANDING_CORE or COASTING,
\* debris is a list, possibly empty, and explosion_core is an object,
\* whatever the triangulation gave, and no update() has raised on a missing
\* object.
C36_LateStatesHaveDebrisAndCore ==
    /\ ~raised
    /\ state \in LateStates => debris.some /\ explosion_core.some

\* The triangulation raised, and the sequencer has gone through an update
\* of EXPANDING_CORE with the empty list and the fireball.
C36_Witness ==
    /\ state = "EXPANDING_CORE"
    /\ state_timer >= 1
    /\ debris = Some(<<>>)
    /\ explosion_core.some
    /\ \E i \in 1..Len(generated) : ~generated[i].tri.ok

\* How many updates each kind of effect has had.
MiniAge(m) == m.timer

ArcAge(arc) == ARC_LIFETIME - arc.lifetime

SmokeAge(c) == c.current_lifetime

\* The effects of a list that the next update() leaves in it, and the ones
\* of the list that have been updated before.
Young(lst, Age(_), last) == {i \in 1..Len(lst) : Age(lst[i]) + 1 < last}

Aged(lst, Age(_)) == {i \in 1..Len(lst) : Age(lst[i]) >= 1}

\* The most mini-explosions of one burst.
LargestBurst == CHOOSE n \in MiniExplosionCounts : \A k \in MiniExplosionCounts : k <= n

\* The most arcs of one spawn block.
LargestSpawn ==
    CHOOSE n \in {Len(g) : g \in ArcSpawnDraws} : \A g \in ArcSpawnDraws : Len(g) <= n

\* C37: after every update() the lists mini_explosions, electrical_arcs and
\* smoke_clouds hold only effects with alpha > 0; an update() keeps exactly
\* the mini-explosions that have had fewer than 14 updates, the top-level
\* arcs that have had fewer than 9 and the smoke clouds that have had fewer
\* than 119, so an effect leaves its list in its 15th, 10th or 120th update;
\* and the lists never grow beyond two bursts of mini-explosions, the arcs
\* of four spawn frames and the one burst of smoke clouds.
C37_EffectsRemovedOnTime ==
    /\ [](/\ \A i \in 1..Len(mini_explosions) :
                mini_explosions[i].alpha > 0
                /\ MiniAge(mini_explosions[i]) < MINI_EXPLOSION_DURATION
          /\ \A i \in 1..Len(electrical_arcs) :
                electrical_arcs[i].alpha > 0
                /\ ArcAge(electrical_arcs[i]) < ARC_LIFETIME
          /\ \A i \in 1..Len(smoke_clouds) :
                smoke_clouds[i].alpha > 0
                /\ SmokeAge(smoke_clouds[i]) < SMOKE_CLOUD_LIFETIME
          /\ Len(mini_explosions) <= 2 * LargestBurst
          /\ Len(electrical_arcs) <= ((ARC_LIFETIME + 2) \div 3) * 2 * LargestSpawn
          /\ Len(smoke_clouds) <= SMOKE_CLOUD_COUNT)
    /\ [][UpdateStep =>
            /\ Cardinality(Aged(mini_explosions', MiniAge))
                 = Cardinality(Young(mini_explosions, MiniAge, MINI_EXPLOSION_DURATION))
            /\ Cardinality(Aged(electrical_arcs', ArcAge))
                 = Cardinality(Young(electrical_arcs, ArcAge, ARC_LIFETIME))
            /\ Cardinality(Aged(smoke_clouds', SmokeAge))
                 = Cardinality(Young(smoke_clouds, SmokeAge, SMOKE_CLOUD_LIFETIME))]_vars

\* The 120th update after the burst of smoke clouds has emptied the list,
\* while the debris is still coasting.
C37_Witness ==
    /\ state = "COASTING"
    /\ ~is_finished
    /\ sparks # <<>>
    /\ smoke_clouds = <<>>
    /\ state_timer + durations.EXPANDING_CORE = SMOKE_CLOUD_LIFETIME

\* C38: the alpha of the fireball is always within 0..255 and no step
\* raises it; in COASTING it is 0, no step changes the fireball and no
\* draw() renders it.
C38_CoreFadesOutByCoast ==
    /\ [](explosion_core.some =>
            /\ explosion_core.val.alpha >= 0
            /\ explosion_core.val.alpha <= 255 * Scale
            /\ state = "COASTING" =>
                  /\ explosion_core.val.alpha = 0
                  /\ surface.drawn => "explosion_core" \notin surface.layers)
    /\ [][/\ (explosion_core.some /\ explosion_core'.some) =>
                explosion_core'.val.alpha <= explosion_core.val.alpha
          /\ state = "COASTING" => explosion_core' = explosion_core]_vars

\* A frame of COASTING has been drawn with the debris still on screen and
\* the fireball faded out.
C38_Witness ==
    /\ state = "COASTING"
    /\ state_timer >= 1
    /\ ~is_finished
    /\ surface.drawn
    /\ "debris" \in surface.layers
    /\ explosion_core.some
    /\ explosion_core.val.alpha = 0

\* C39: an update() of a piece of any of the three classes that leaves it
\* with lifetime <= 0 leaves it with alpha 0; the update of a collapsing
\* piece that is being pulled in and finds it less than 60 pixels from the
\* attractor sets lifetime 0 and alpha 0 in the same call, and the update
\* that finds it farther leaves its lifetime alone.
C39_DeadIsInvisible ==
    \A i \in 1..Len(last_pass) :
        LET b == last_pass[i].before
            a == last_pass[i].after
        IN /\ a.lifetime <= 0 => a.alpha = 0
           /\ (b.cls = "AsteroidDebrisPiece" /\ b.sucked_in) =>
                IF DistanceToHole(b) < Px(60)
                THEN a.lifetime = 0 /\ a.alpha = 0
                ELSE a.lifetime = b.lifetime /\ a.lifetime > 0

\* A collapsing piece that was still visible has been found within 60
\* pixels of the attractor and is dead and invisible.
C39_Witness ==
    \E i \in 1..Len(last_pass) :
        /\ last_pass[i].before.cls = "AsteroidDebrisPiece"
        /\ last_pass[i].before.sucked_in
        /\ last_pass[i].before.alpha > 0
        /\ last_pass[i].before.lifetime > 0
        /\ DistanceToHole(last_pass[i].before) < Px(60)
        /\ last_pass[i].after.lifetime = 0
        /\ last_pass[i].after.alpha = 0

====
